---- MODULE Spec2Model ----
(***************************************************************************)
(* Model of the Minisafe/Liana command control plane                       *)
(* (src/src/commands/mod.rs) running over the DummyDatabase coin store     *)
(* (src/src/testutils.rs).                                                 *)
(*                                                                         *)
(* Satoshi amounts and feerates are Rust u64 values.  They are kept at     *)
(* their full width: a u64 is a sequence of NLimbs decimal limbs of        *)
(* LimbBase each, most significant first, never above U64_MAX.             *)
(***************************************************************************)
EXTENDS Integers, Sequences, FiniteSets, TLC

VARIABLES coins, deposit_index, change_index, spend_txs, returned, ret,
          rescan_timestamp, bitcoin, rescans, address_calls, curr_tip

vars == <<coins, deposit_index, change_index, spend_txs, returned, ret,
          rescan_timestamp, bitcoin, rescans, address_calls, curr_tip>>

\* The rescan flag of the store, the backend, and the start_rescan calls under way.
rescan_vars == <<rescan_timestamp, bitcoin, rescans>>

(***************************************************************************)
(* Option<T>                                                               *)
(***************************************************************************)
None == [some |-> FALSE]

Some(x) == [some |-> TRUE, v |-> x]

is_some(o) == o.some

is_none(o) == ~o.some

(***************************************************************************)
(* u64 arithmetic: limbs, most significant first.                          *)
(***************************************************************************)
LimbBase == 10 * 1000

NLimbs == 2 + 3

\* 2^64 - 1 = 18446744073709551615
U64_MAX == <<1844, 6744, 737, 955, 1615>>

\* The u64 of a natural number small enough to be a TLC integer.
U(n) == <<0, 0, n \div (LimbBase * LimbBase), (n \div LimbBase) % LimbBase, n % LimbBase>>

\* The natural number of a u64 that is small enough to be a TLC integer.
IsSmall(a) == a[1] = 0 /\ a[2] = 0 /\ a[3] <= 20

ToNat(a) == (a[3] * LimbBase + a[4]) * LimbBase + a[5]

RECURSIVE LimbsLt(_, _, _)
LimbsLt(a, b, i) ==
    IF i > NLimbs THEN FALSE
    ELSE IF a[i] # b[i] THEN a[i] < b[i]
    ELSE LimbsLt(a, b, i + 1)

U64Lt(a, b) == LimbsLt(a, b, 1)

U64Le(a, b) == ~U64Lt(b, a)

\* Propagates carries (or borrows) from the least significant limb upwards.
RECURSIVE Carry(_, _, _)
Carry(s, i, c) ==
    IF i = 0 THEN [limbs |-> s, carry |-> c]
    ELSE LET t == s[i] + c
         IN  Carry([s EXCEPT ![i] = t % LimbBase], i - 1, t \div LimbBase)

\* u64::checked_add
checked_add(a, b) ==
    LET r == Carry([i \in 1..NLimbs |-> a[i] + b[i]], NLimbs, 0)
    IN  IF r.carry # 0 \/ U64Lt(U64_MAX, r.limbs) THEN None ELSE Some(r.limbs)

\* u64::checked_sub
checked_sub(a, b) ==
    IF U64Lt(a, b) THEN None
    ELSE Some(Carry([i \in 1..NLimbs |-> a[i] - b[i]], NLimbs, 0).limbs)

\* u64::checked_mul by a factor k that is a small natural number.
checked_mul(a, k) ==
    LET r == Carry([i \in 1..NLimbs |-> a[i] * k], NLimbs, 0)
    IN  IF r.carry # 0 \/ U64Lt(U64_MAX, r.limbs) THEN None ELSE Some(r.limbs)

RECURSIVE LongDiv(_, _, _, _)
LongDiv(a, d, i, r) ==
    IF i > NLimbs THEN a
    ELSE LET cur == r * LimbBase + a[i]
         IN  LongDiv([a EXCEPT ![i] = cur \div d], d, i + 1, cur % d)

\* u64::checked_div by a divisor d that is a small natural number.
checked_div(a, d) == IF d = 0 THEN None ELSE Some(LongDiv(a, d, 1, 0))

(***************************************************************************)
(* Program constants                                                       *)
(***************************************************************************)
WITNESS_FACTOR == 4

MAINNET_GENESIS_TIME == 1231006505

DUST_OUTPUT_SATS == 5000

\* bitcoin::blockdata::constants::COIN_VALUE
COIN_VALUE == 100000000

MAX_FEE == COIN_VALUE

MAX_FEERATE == COIN_VALUE

\* bitcoin::blockdata::constants::max_money: 21_000_000 * COIN_VALUE
MAX_MONEY == <<0, 2100, 0, 0, 0>>

(***************************************************************************)
(* Transactions, outpoints, scripts                                        *)
(***************************************************************************)
\* A transaction funding the wallet, made outside of it.
FundingTx(n) == [version |-> 1, lock_time |-> n, input |-> <<>>, output |-> <<>>]

\* Transaction::txid: a collision-free hash of the unsigned transaction.
txid(tx) == [hash |-> tx]

OutPoint(n) == [txid |-> txid(FundingTx(n)), vout |-> 0]

\* dummy_op_a and dummy_op_b of the tests.
Outpoints == {OutPoint(1), OutPoint(2)}

\* dummy_addr_a and dummy_addr_b of the tests, both P2WPKH addresses.
Addresses == {"addr_a", "addr_b"}

\* Address::script_pubkey
script_pubkey(address) == [kind |-> "p2wpkh", of |-> address]

\* The derived descriptor of a branch (change or receive) at an index.
derive(is_change, index) == [is_change |-> is_change, index |-> index]

\* DerivedInheritanceDescriptor::script_pubkey: a P2WSH script.
desc_script_pubkey(desc) == [kind |-> "p2wsh", of |-> desc]

\* DerivedInheritanceDescriptor::address: the address of the P2WSH script.
desc_address(desc) == [address_of |-> desc_script_pubkey(desc)]

\* DerivedInheritanceDescriptor::bip32_derivations: the owner's and the heir's key.
bip32_derivations(desc) == {<<"owner", desc>>, <<"heir", desc>>}

\* Length in bytes of a script: OP_0 and a 20 or 32 bytes push.
script_len(script) == IF script.kind = "p2wpkh" THEN 22 ELSE 34

\* Serialized size of a TxOut: value, script length varint, script.
serializable_size(txo) == 8 + 1 + script_len(txo.script_pubkey)

RECURSIVE SumSizes(_, _)
SumSizes(outs, i) ==
    IF i > Len(outs) THEN 0 ELSE serializable_size(outs[i]) + SumSizes(outs, i + 1)

\* Transaction::weight of a transaction without witness nor script_sig:
\* version, input count, 41 bytes per input, output count, outputs, lock time.
weight(tx) == WITNESS_FACTOR * (4 + 1 + 41 * Len(tx.input) + 1 + SumSizes(tx.output, 1) + 4)

tx_vbytes(tx) == weight(tx) \div WITNESS_FACTOR

\* DerivedInheritanceDescriptor::max_sat_weight: with it, a spend of one coin to one
\* P2WPKH output and a change output weighs the 170 vbytes of the tests.
max_sat_weight(desc) == 180

\* Maximum satisfaction size of a derived descriptor, in vbytes.
desc_sat_vb(desc) == max_sat_weight(desc) \div WITNESS_FACTOR

(***************************************************************************)
(* Coins                                                                   *)
(***************************************************************************)
Coin(op, amount, index, is_change) ==
    [outpoint |-> op, block_height |-> None, block_time |-> None, amount |-> amount,
     derivation_index |-> index, is_change |-> is_change,
     spend_txid |-> None, spend_block |-> None]

is_confirmed(coin) == is_some(coin.block_height)

\* Only a confirmed spend counts.
is_spent_confirmed(coin) == is_some(coin.spend_block)

is_spent(coin) == is_some(coin.spend_txid)

(***************************************************************************)
(* Command results                                                         *)
(***************************************************************************)
Ok(x) == [tag |-> "Ok", v |-> x]

Err(kind, args) == [tag |-> "Err", kind |-> kind, args |-> args]

\* A failed unwrap() or expect(), or an overflow of an arithmetic operator.
Panic(at) == [tag |-> "Panic", at |-> at]

is_ok(r) == r.tag = "Ok"

is_err(r, kind) == r.tag = "Err" /\ r.kind = kind

(***************************************************************************)
(* check_output_value and sanity_check_psbt                                *)
(***************************************************************************)
\* The check of the lower bound alone.
check_output_value_dust_only(value) ==
    IF U64Lt(value, U(DUST_OUTPUT_SATS)) THEN Err("InvalidOutputValue", <<value>>) ELSE Ok(<<>>)

check_output_value(value) ==
    IF U64Lt(MAX_MONEY, value) \/ U64Lt(value, U(DUST_OUTPUT_SATS))
    THEN Err("InvalidOutputValue", <<value>>)
    ELSE Ok(<<>>)

SanityCheckFailure(psbt) == Err("SanityCheckFailure", <<psbt>>)

\* The loop over psbt.inputs: Ok(value_in), or the failure.
RECURSIVE sanity_value_in(_, _, _)
sanity_value_in(psbt, i, value_in) ==
    IF i > Len(psbt.inputs) THEN Ok(value_in)
    ELSE IF psbt.inputs[i].bip32_derivation = {} THEN SanityCheckFailure(psbt)
    ELSE IF is_none(psbt.inputs[i].witness_utxo) THEN SanityCheckFailure(psbt)
    ELSE LET sum == checked_add(value_in, psbt.inputs[i].witness_utxo.v.value)
         IN  IF is_none(sum) THEN Panic("value_in += witness_utxo.value")
             ELSE sanity_value_in(psbt, i + 1, sum.v)

\* tx.output.iter().map(|o| o.value).sum()
RECURSIVE sum_outputs(_, _, _)
sum_outputs(outs, i, acc) ==
    IF i > Len(outs) THEN Ok(acc)
    ELSE LET sum == checked_add(acc, outs[i].value)
         IN  IF is_none(sum) THEN Panic("value_out sum") ELSE sum_outputs(outs, i + 1, sum.v)

sanity_check_fee(psbt, value_in, value_out) ==
    LET tx == psbt.unsigned_tx
        abs_fee == checked_sub(value_in, value_out)
    IN  IF is_none(abs_fee) THEN SanityCheckFailure(psbt)
        ELSE IF U64Lt(U(MAX_FEE), abs_fee.v) THEN SanityCheckFailure(psbt)
        ELSE LET feerate_sats_vb == checked_div(abs_fee.v, tx_vbytes(tx))
             IN  IF is_none(feerate_sats_vb) THEN SanityCheckFailure(psbt)
                 ELSE IF U64Lt(feerate_sats_vb.v, U(1)) \/ U64Lt(U(MAX_FEERATE), feerate_sats_vb.v)
                      THEN SanityCheckFailure(psbt)
                      ELSE Ok(<<>>)

sanity_check_psbt(psbt) ==
    LET tx == psbt.unsigned_tx
    IN  IF Len(psbt.inputs) # Len(tx.input) \/ Len(psbt.outputs) # Len(tx.output)
        THEN SanityCheckFailure(psbt)
        ELSE LET value_in == sanity_value_in(psbt, 1, U(0))
                 value_out == sum_outputs(tx.output, 1, U(0))
             IN  IF ~is_ok(value_in) THEN value_in
                 ELSE IF ~is_ok(value_out) THEN value_out
                 ELSE sanity_check_fee(psbt, value_in.v, value_out.v)

(***************************************************************************)
(* DummyDatabase reads                                                     *)
(***************************************************************************)
\* The elements of a sequence.
Range(seq) == {seq[i] : i \in 1..Len(seq)}

\* DummyDatabase::coins_by_outpoints: the stored coins at one of these outpoints.
coins_by_outpoints(db_coins, outpoints) ==
    [op \in DOMAIN db_coins \cap Range(outpoints) |-> db_coins[op]]

\* The receive index read from the counter of the change addresses.
db_receive_index_of_change == change_index

\* DummyDatabase::receive_index
db_receive_index == deposit_index

\* DummyDatabase::change_index
db_change_index == deposit_index

(***************************************************************************)
(* create_spend                                                            *)
(***************************************************************************)
\* DaemonControl::derived_desc
derived_desc(coin) == derive(coin.is_change, coin.derivation_index)

\* An empty HashMap or BTreeMap.
EmptyMap == [x \in {} |-> x]

PsbtIn(witness_script, witness_utxo, bip32_derivation) ==
    [witness_script |-> witness_script, witness_utxo |-> witness_utxo,
     bip32_derivation |-> bip32_derivation, partial_sigs |-> EmptyMap]

\* PsbtOut::default()
PsbtOutDefault == [bip32_derivation |-> {}]

\* The loop over the requested outpoints. acc holds in_value, sat_vb, txins, psbt_ins.
RECURSIVE spend_inputs_from(_, _, _, _)
spend_inputs_from(coins_outpoints, found, i, acc) ==
    IF i > Len(coins_outpoints) THEN Ok(acc)
    ELSE LET op == coins_outpoints[i]
         IN  IF op \notin DOMAIN found THEN Err("UnknownOutpoint", <<op>>)
             ELSE IF is_spent(found[op]) THEN Err("AlreadySpent", <<op>>)
             ELSE LET coin == found[op]
                      in_value == checked_add(acc.in_value, coin.amount)
                      coin_desc == derived_desc(coin)
                      witness_utxo == Some([value |-> coin.amount,
                                            script_pubkey |-> desc_script_pubkey(coin_desc)])
                  IN  IF is_none(in_value) THEN Panic("in_value += coin.amount")
                      ELSE spend_inputs_from(coins_outpoints, found, i + 1,
                               [in_value |-> in_value.v,
                                sat_vb |-> acc.sat_vb + desc_sat_vb(coin_desc),
                                txins |-> Append(acc.txins, [previous_output |-> op]),
                                psbt_ins |-> Append(acc.psbt_ins,
                                    PsbtIn(Some(coin_desc), witness_utxo,
                                           bip32_derivations(coin_desc)))])

Reverse(seq) == [i \in 1..Len(seq) |-> seq[Len(seq) + 1 - i]]

\* The outpoints are examined from the last to the first.
spend_inputs_backwards(coins_outpoints, found) ==
    spend_inputs_from(Reverse(coins_outpoints), found, 1,
        [in_value |-> U(0), sat_vb |-> 0, txins |-> <<>>, psbt_ins |-> <<>>])

\* for op in coins_outpoints { .. }
spend_inputs(coins_outpoints, found) ==
    spend_inputs_from(coins_outpoints, found, 1,
        [in_value |-> U(0), sat_vb |-> 0, txins |-> <<>>, psbt_ins |-> <<>>])

\* The loop over the destinations, in the iteration order of the HashMap.
\* acc holds out_value, txouts, psbt_outs.
RECURSIVE spend_outputs(_, _, _, _)
spend_outputs(destinations, order, i, acc) ==
    IF i > Len(order) THEN Ok(acc)
    ELSE LET amount == destinations[order[i]]
             checked == check_output_value(amount)
             out_value == checked_add(acc.out_value, amount)
         IN  IF ~is_ok(checked) THEN checked
             ELSE IF is_none(out_value) THEN Panic("out_value.checked_add(amount).unwrap()")
             ELSE spend_outputs(destinations, order, i + 1,
                      [out_value |-> out_value.v,
                       txouts |-> Append(acc.txouts,
                           [value |-> amount, script_pubkey |-> script_pubkey(order[i])]),
                       psbt_outs |-> Append(acc.psbt_outs, PsbtOutDefault)])

\* The inputs end up in the transaction in the reverse order.
Transaction_reversed(txins, txouts) ==
    [version |-> 2, lock_time |-> 0, input |-> Reverse(txins), output |-> txouts]

Transaction(txins, txouts) == [version |-> 2, lock_time |-> 0, input |-> txins, output |-> txouts]

Psbt(tx, psbt_ins, psbt_outs) == [unsigned_tx |-> tx, inputs |-> psbt_ins, outputs |-> psbt_outs]

\* create_spend returning the PSBT without the sanity check.
spend_finish_unchecked(tx, psbt_ins, psbt_outs) == Ok(Psbt(tx, psbt_ins, psbt_outs))

\* The end of create_spend: build the PSBT and check it.
spend_finish(tx, psbt_ins, psbt_outs) ==
    LET psbt == Psbt(tx, psbt_ins, psbt_outs)
        sane == sanity_check_psbt(psbt)
    IN  IF is_ok(sane) THEN Ok(psbt) ELSE sane

\* The size of the change output is left out.
with_change_vb_unchanged(nochange_vb, change_vb) == nochange_vb

\* nochange_vb.checked_add(change_vb).unwrap(), of sizes far below 2^64
with_change_vb(nochange_vb, change_vb) == nochange_vb + change_vb

\* A change is added whatever it is worth.
keep_change_any(change_amount) == TRUE

\* change_amount.to_sat() >= DUST_OUTPUT_SATS
keep_change(change_amount) == ~U64Lt(change_amount, U(DUST_OUTPUT_SATS))

\* Change is paid to the first change script only: once it is taken, the funds are
\* deemed reserved.
spend_change_first_index_only(tx, ins, outs, index, absolute_fee, nochange_vb, feerate_vb) ==
    LET change_script == desc_script_pubkey(derive(TRUE, index))
        with_vb == nochange_vb
                   + serializable_size([value |-> U64_MAX, script_pubkey |-> change_script])
        with_change_feerate_vb == checked_div(absolute_fee, with_vb)
        target_fee == checked_mul(feerate_vb, with_vb)
        change_amount == checked_sub(absolute_fee, target_fee.v)
    IN  IF index > 0
        THEN Err("InsufficientFunds", <<ins.in_value, outs.out_value, feerate_vb>>)
        ELSE IF is_none(with_change_feerate_vb) THEN Panic("checked_div(with_change_vb).unwrap()")
        ELSE IF ~U64Lt(feerate_vb, with_change_feerate_vb.v)
             THEN spend_finish(tx, ins.psbt_ins, outs.psbt_outs)
        ELSE IF is_none(target_fee) THEN Panic("with_change_vb.checked_mul(feerate_vb).unwrap()")
        ELSE IF is_none(change_amount) THEN Panic("absolute_fee.checked_sub(target_fee).unwrap()")
        ELSE IF U64Lt(change_amount.v, U(DUST_OUTPUT_SATS))
             THEN spend_finish(tx, ins.psbt_ins, outs.psbt_outs)
        ELSE IF ~is_ok(check_output_value(change_amount.v))
             THEN check_output_value(change_amount.v)
        ELSE spend_finish(
                 [tx EXCEPT !.output = Append(@, [value |-> change_amount.v,
                                                  script_pubkey |-> change_script])],
                 ins.psbt_ins, Append(outs.psbt_outs, PsbtOutDefault))

\* The change decision, taken when nochange_feerate_vb > feerate_vb. The change index
\* has been read and incremented by then.
spend_change(tx, ins, outs, index, absolute_fee, nochange_vb, feerate_vb) ==
    LET change_desc == derive(TRUE, index)
        change_script == desc_script_pubkey(change_desc)
        change_vb == serializable_size([value |-> U64_MAX, script_pubkey |-> change_script])
        with_vb == with_change_vb(nochange_vb, change_vb)
        with_change_feerate_vb == checked_div(absolute_fee, with_vb)
        target_fee == checked_mul(feerate_vb, with_vb)
        change_amount == checked_sub(absolute_fee, target_fee.v)
    IN  IF is_none(with_change_feerate_vb) THEN Panic("checked_div(with_change_vb).unwrap()")
        ELSE IF ~U64Lt(feerate_vb, with_change_feerate_vb.v)
             THEN spend_finish(tx, ins.psbt_ins, outs.psbt_outs)
        ELSE IF is_none(target_fee) THEN Panic("with_change_vb.checked_mul(feerate_vb).unwrap()")
        ELSE IF is_none(change_amount) THEN Panic("absolute_fee.checked_sub(target_fee).unwrap()")
        ELSE IF ~keep_change(change_amount.v)
             THEN spend_finish(tx, ins.psbt_ins, outs.psbt_outs)
        ELSE IF ~is_ok(check_output_value(change_amount.v))
             THEN check_output_value(change_amount.v)
        ELSE spend_finish(
                 [tx EXCEPT !.output = Append(@, [value |-> change_amount.v,
                                                  script_pubkey |-> change_script])],
                 ins.psbt_ins, Append(outs.psbt_outs, PsbtOutDefault))

\* The feerate check without the 10% tolerance.
feerate_too_low_strict(nochange_feerate_vb, feerate_vb) ==
    Ok(U64Lt(nochange_feerate_vb, feerate_vb))

\* nochange_feerate_vb.checked_mul(10).unwrap() < feerate_vb.checked_mul(9).unwrap()
feerate_too_low(nochange_feerate_vb, feerate_vb) ==
    LET lhs == checked_mul(nochange_feerate_vb, 10)
        rhs == checked_mul(feerate_vb, 9)
    IN  IF is_none(lhs) THEN Panic("nochange_feerate_vb.checked_mul(10).unwrap()")
        ELSE IF is_none(rhs) THEN Panic("feerate_vb.checked_mul(9).unwrap()")
        ELSE Ok(U64Lt(lhs.v, rhs.v))

\* The change index is incremented only when a change output is added.
spend_fees_increment_on_change(ins, outs, index, feerate_vb) ==
    LET tx == Transaction(ins.txins, outs.txouts)
        nochange_vb == tx_vbytes(tx) + ins.sat_vb
        absolute_fee == checked_sub(ins.in_value, outs.out_value)
        InsufficientFunds == Err("InsufficientFunds", <<ins.in_value, outs.out_value, feerate_vb>>)
        nochange_feerate_vb == checked_div(absolute_fee.v, nochange_vb)
        too_low == feerate_too_low(nochange_feerate_vb.v, feerate_vb)
        Stay(r) == [result |-> r, incremented |-> FALSE]
        changed == spend_change(tx, ins, outs, index, absolute_fee.v, nochange_vb, feerate_vb)
    IN  IF is_none(absolute_fee) THEN Stay(InsufficientFunds)
        ELSE IF is_none(nochange_feerate_vb) THEN Stay(Panic("checked_div(nochange_vb).unwrap()"))
        ELSE IF ~is_ok(too_low) THEN Stay(too_low)
        ELSE IF too_low.v THEN Stay(InsufficientFunds)
        ELSE IF U64Lt(feerate_vb, nochange_feerate_vb.v)
             THEN [result |-> changed,
                   incremented |-> /\ is_ok(changed)
                                   /\ Len(changed.v.unsigned_tx.output) > Len(outs.txouts)]
        ELSE Stay(spend_finish(tx, ins.psbt_ins, outs.psbt_outs))

\* The fee checks and the change decision, once inputs and outputs are assembled.
\* [result, incremented]: incremented tells whether increment_change_index was called.
spend_fees(ins, outs, index, feerate_vb) ==
    LET tx == Transaction(ins.txins, outs.txouts)
        nochange_vb == tx_vbytes(tx) + ins.sat_vb
        absolute_fee == checked_sub(ins.in_value, outs.out_value)
        InsufficientFunds == Err("InsufficientFunds", <<ins.in_value, outs.out_value, feerate_vb>>)
        nochange_feerate_vb == checked_div(absolute_fee.v, nochange_vb)
        too_low == feerate_too_low(nochange_feerate_vb.v, feerate_vb)
        Stay(r) == [result |-> r, incremented |-> FALSE]
    IN  IF is_none(absolute_fee) THEN Stay(InsufficientFunds)
        ELSE IF is_none(nochange_feerate_vb) THEN Stay(Panic("checked_div(nochange_vb).unwrap()"))
        ELSE IF ~is_ok(too_low) THEN Stay(too_low)
        ELSE IF too_low.v THEN Stay(InsufficientFunds)
        ELSE IF U64Lt(feerate_vb, nochange_feerate_vb.v)
             THEN [result |-> spend_change(tx, ins, outs, index, absolute_fee.v,
                                           nochange_vb, feerate_vb),
                   incremented |-> TRUE]
        ELSE Stay(spend_finish(tx, ins.psbt_ins, outs.psbt_outs))

\* create_spend checking the feerate before the outpoints and the destinations.
create_spend_feerate_first(db_coins, index, coins_outpoints, destinations, order, feerate_vb) ==
    LET Stay(r) == [result |-> r, incremented |-> FALSE]
        ins == spend_inputs(coins_outpoints, coins_by_outpoints(db_coins, coins_outpoints))
        outs == spend_outputs(destinations, order, 1,
                   [out_value |-> U(0), txouts |-> <<>>, psbt_outs |-> <<>>])
    IN  IF U64Lt(feerate_vb, U(1)) THEN Stay(Err("InvalidFeerate", <<feerate_vb>>))
        ELSE IF coins_outpoints = <<>> THEN Stay(Err("NoOutpoint", <<>>))
        ELSE IF DOMAIN destinations = {} THEN Stay(Err("NoDestination", <<>>))
        ELSE IF ~is_ok(ins) THEN Stay(ins)
        ELSE IF ~is_ok(outs) THEN Stay(outs)
        ELSE spend_fees(ins.v, outs.v, index, feerate_vb)

\* DaemonControl::create_spend over the coins of the store and the index that
\* change_index() returns. order is the iteration order of the destinations.
create_spend(db_coins, index, coins_outpoints, destinations, order, feerate_vb) ==
    LET Stay(r) == [result |-> r, incremented |-> FALSE]
        ins == spend_inputs(coins_outpoints, coins_by_outpoints(db_coins, coins_outpoints))
        outs == spend_outputs(destinations, order, 1,
                   [out_value |-> U(0), txouts |-> <<>>, psbt_outs |-> <<>>])
    IN  IF coins_outpoints = <<>> THEN Stay(Err("NoOutpoint", <<>>))
        ELSE IF DOMAIN destinations = {} THEN Stay(Err("NoDestination", <<>>))
        ELSE IF U64Lt(feerate_vb, U(1)) THEN Stay(Err("InvalidFeerate", <<feerate_vb>>))
        ELSE IF ~is_ok(ins) THEN Stay(ins)
        ELSE IF ~is_ok(outs) THEN Stay(outs)
        ELSE spend_fees(ins.v, outs.v, index, feerate_vb)

(***************************************************************************)
(* Bounds and inputs                                                       *)
(***************************************************************************)
(* The address and PSBT commands, over the store of DummyDatabase.         *)
(***************************************************************************)
\* DaemonControl::get_new_address, for the receive index read from the store.
get_new_address(index) == [address |-> desc_address(derive(FALSE, index))]

\* The map with one more entry, or with the entry at this key replaced.
Insert(map, key, value) ==
    [k \in DOMAIN map \cup {key} |-> IF k = key THEN value ELSE map[k]]

\* The map without the entry at this key.
Remove(map, key) == [k \in DOMAIN map \ {key} |-> map[k]]

\* BTreeMap::extend: the entries of other are inserted, replacing those of the same key.
extend(map, other) ==
    [k \in DOMAIN map \cup DOMAIN other |-> IF k \in DOMAIN other THEN other[k] ELSE map[k]]

\* DummyDatabase::spend_tx
spend_tx(db_spend_txs, id) ==
    IF id \in DOMAIN db_spend_txs THEN Some(db_spend_txs[id]) ELSE None

\* The PSBT is stored only if none is stored under its txid.
store_spend_if_absent(db_spend_txs, psbt) ==
    IF txid(psbt.unsigned_tx) \in DOMAIN db_spend_txs THEN db_spend_txs
    ELSE Insert(db_spend_txs, txid(psbt.unsigned_tx), psbt)

\* DummyDatabase::store_spend
store_spend(db_spend_txs, psbt) == Insert(db_spend_txs, txid(psbt.unsigned_tx), psbt)

\* DummyDatabase::delete_spend
delete_spend(db_spend_txs, id) == Remove(db_spend_txs, id)

\* The new PSBT replaces the stored one as it is: nothing is merged into it.
merge_nothing(psbt, db_psbt, i) == psbt

\* update_spend, the transaction being stored already: the loop that merges the
\* signatures of the stored PSBT into the new one, from the input at position i.
RECURSIVE merge_partial_sigs(_, _, _)
merge_partial_sigs(psbt, db_psbt, i) ==
    LET tx == psbt.unsigned_tx
        db_tx == db_psbt.unsigned_tx
    IN  IF i > Len(db_tx.input) THEN psbt
        ELSE IF ~(i <= Len(tx.input)
                    /\ tx.input[i].previous_output = db_tx.input[i].previous_output)
             THEN merge_partial_sigs(psbt, db_psbt, i + 1)
        ELSE IF i > Len(psbt.inputs) THEN merge_partial_sigs(psbt, db_psbt, i + 1)
        ELSE IF i > Len(db_psbt.inputs) THEN merge_partial_sigs(psbt, db_psbt, i + 1)
        ELSE merge_partial_sigs(
                 [psbt EXCEPT !.inputs[i].partial_sigs =
                                  extend(@, db_psbt.inputs[i].partial_sigs)],
                 db_psbt, i + 1)

\* The inputs of a new transaction are not checked against the coins.
check_no_input(db_coins, tx) == Ok(<<>>)

\* update_spend, the transaction not being stored yet: the check of its inputs.
check_known_inputs(db_coins, tx) ==
    LET outpoints == [i \in 1..Len(tx.input) |-> tx.input[i].previous_output]
        found == coins_by_outpoints(db_coins, outpoints)
        missing == {i \in 1..Len(outpoints) : outpoints[i] \notin DOMAIN found}
    IN  IF Cardinality(DOMAIN found) # Len(outpoints) /\ missing # {}
        THEN Err("UnknownOutpoint", <<outpoints[CHOOSE i \in missing : \A j \in missing : i <= j]>>)
        ELSE Ok(<<>>)

\* DaemonControl::update_spend: the result and the PSBT store it leaves.
update_spend(db_coins, db_spend_txs, psbt) ==
    LET db_psbt == spend_tx(db_spend_txs, txid(psbt.unsigned_tx))
        known == check_known_inputs(db_coins, psbt.unsigned_tx)
    IN  IF is_some(db_psbt)
        THEN [result |-> Ok(<<>>),
              spend_txs |-> store_spend(db_spend_txs, merge_partial_sigs(psbt, db_psbt.v, 1))]
        ELSE IF ~is_ok(known) THEN [result |-> known, spend_txs |-> db_spend_txs]
        ELSE [result |-> Ok(<<>>), spend_txs |-> store_spend(db_spend_txs, psbt)]

\* DummyDatabase::derivation_index_by_address
derivation_index_by_address(address) == None

\* utils::change_index: the position of the first output that pays a change address.
RECURSIVE utils_change_index(_, _)
utils_change_index(psbt, i) ==
    LET txo == psbt.unsigned_tx.output[i]
        derivation == derivation_index_by_address([address_of |-> txo.script_pubkey])
    IN  IF i > Len(psbt.unsigned_tx.output) THEN None
        ELSE IF txo.script_pubkey.kind # "p2wsh" THEN utils_change_index(psbt, i + 1)
        ELSE IF is_some(derivation) /\ derivation.v[2] THEN Some(i - 1)
        ELSE utils_change_index(psbt, i + 1)

\* DaemonControl::list_spend, the HashMap of the store being iterated in this order.
list_spend(db_spend_txs, order) ==
    [i \in 1..Len(order) |->
        [psbt |-> db_spend_txs[order[i]],
         change_index |-> utils_change_index(db_spend_txs[order[i]], 1)]]

(***************************************************************************)
(* broadcast_spend and start_rescan. The backend is the one of the         *)
(* BitcoinInterface contract; the DummyBitcoind of the tests implements    *)
(* neither broadcast_tx, start_rescan nor tip_time.                        *)
(***************************************************************************)
\* Psbt::finalize_mut of miniscript: an input is satisfied by the owner's signature.
\* The errors are those of the inputs that are not satisfied, in the order of the inputs.
finalize_mut(psbt) ==
    LET n == Len(psbt.unsigned_tx.input)
        unsatisfied(i) == i > Len(psbt.inputs) \/ "owner" \notin DOMAIN psbt.inputs[i].partial_sigs
        RECURSIVE errors(_)
        errors(i) == IF i > n THEN <<>>
                     ELSE IF unsatisfied(i) THEN <<[input |-> i - 1, error |-> "CouldNotSatisfy"]>> \o errors(i + 1)
                     ELSE errors(i + 1)
    IN  IF errors(1) # <<>> THEN Err("finalize", errors(1))
        ELSE Ok([psbt EXCEPT !.inputs =
                    [i \in 1..n |->
                        [witness_script |-> None, witness_utxo |-> psbt.inputs[i].witness_utxo,
                         bip32_derivation |-> {}, partial_sigs |-> EmptyMap,
                         final_script_witness |-> Some(psbt.inputs[i].partial_sigs["owner"])]]])

\* Psbt::extract_tx: the transaction with the witnesses of the finalized inputs.
extract_tx(psbt) ==
    [psbt.unsigned_tx EXCEPT !.input =
        [i \in 1..Len(psbt.unsigned_tx.input) |->
            [previous_output |-> psbt.unsigned_tx.input[i].previous_output,
             witness |-> psbt.inputs[i].final_script_witness]]]

\* e.into_iter().next().map(|e| e.to_string()).unwrap_or_default()
first_message(errors) == IF errors = <<>> THEN "" ELSE errors[1]

\* The transaction is extracted and sent although the finalization failed.
broadcast_spend_unfinalized(db_spend_txs, id, answer) ==
    LET spend_psbt == spend_tx(db_spend_txs, id)
    IN  IF is_none(spend_psbt)
        THEN [result |-> Err("UnknownSpend", <<id>>), calls |-> <<>>, spend_txs |-> db_spend_txs]
        ELSE [result |-> IF is_ok(answer) THEN Ok(<<>>) ELSE Err("TxBroadcast", answer.args),
              calls |-> <<[fn |-> "broadcast_tx", tx |-> spend_psbt.v.unsigned_tx]>>,
              spend_txs |-> db_spend_txs]

\* The PSBT is deleted from the store once its transaction is broadcast.
broadcast_spend_deleting(db_spend_txs, id, answer) ==
    LET spend_psbt == spend_tx(db_spend_txs, id)
        finalized == finalize_mut(spend_psbt.v)
    IN  IF is_none(spend_psbt)
        THEN [result |-> Err("UnknownSpend", <<id>>), calls |-> <<>>, spend_txs |-> db_spend_txs]
        ELSE IF ~is_ok(finalized)
        THEN [result |-> Err("SpendFinalization", <<first_message(finalized.args)>>),
              calls |-> <<>>, spend_txs |-> db_spend_txs]
        ELSE [result |-> IF is_ok(answer) THEN Ok(<<>>) ELSE Err("TxBroadcast", answer.args),
              calls |-> <<[fn |-> "broadcast_tx", tx |-> extract_tx(finalized.v)]>>,
              spend_txs |-> IF is_ok(answer) THEN delete_spend(db_spend_txs, id)
                            ELSE db_spend_txs]

\* DaemonControl::broadcast_spend, the backend giving this answer to broadcast_tx if
\* it is called: the result, the calls made to the backend and the PSBT store left.
broadcast_spend(db_spend_txs, id, answer) ==
    LET spend_psbt == spend_tx(db_spend_txs, id)
        finalized == finalize_mut(spend_psbt.v)
    IN  IF is_none(spend_psbt)
        THEN [result |-> Err("UnknownSpend", <<id>>), calls |-> <<>>, spend_txs |-> db_spend_txs]
        ELSE IF ~is_ok(finalized)
        THEN [result |-> Err("SpendFinalization", <<first_message(finalized.args)>>),
              calls |-> <<>>, spend_txs |-> db_spend_txs]
        ELSE [result |-> IF is_ok(answer) THEN Ok(<<>>) ELSE Err("TxBroadcast", answer.args),
              calls |-> <<[fn |-> "broadcast_tx", tx |-> extract_tx(finalized.v)]>>,
              spend_txs |-> db_spend_txs]

\* The timestamp of the tip is accepted.
insane_timestamp_after_tip(timestamp, tip_time) ==
    timestamp < MAINNET_GENESIS_TIME \/ timestamp > tip_time

\* timestamp < MAINNET_GENESIS_TIME || timestamp >= self.bitcoin.tip_time()
insane_timestamp(timestamp, tip_time) ==
    timestamp < MAINNET_GENESIS_TIME \/ timestamp >= tip_time

\* The flag of the store alone is looked at.
already_rescanning_db_only(db_rescan_timestamp, rescan_progress) ==
    is_some(db_rescan_timestamp)

\* db_conn.rescan_timestamp().is_some() || self.bitcoin.rescan_progress().is_some()
already_rescanning(db_rescan_timestamp, rescan_progress) ==
    is_some(db_rescan_timestamp) \/ is_some(rescan_progress)

\* start_rescan up to its first return: the check of the timestamp. A call under way
\* is its position pc, its timestamp, the calls it has made and its result.
start_rescan_begin(timestamp, tip_time) ==
    IF insane_timestamp(timestamp, tip_time)
    THEN [pc |-> "done", timestamp |-> timestamp, calls |-> <<>>,
          result |-> Err("InsaneRescanTimestamp", <<timestamp>>)]
    ELSE [pc |-> "check_rescan", timestamp |-> timestamp, calls |-> <<>>]

\* The check asks the backend alone whether a rescan is under way.
start_rescan_check_backend_only(call, db_rescan_timestamp, rescan_progress) ==
    IF is_some(rescan_progress)
    THEN [pc |-> "done", timestamp |-> call.timestamp, calls |-> call.calls,
          seen |-> [rescan_timestamp |-> db_rescan_timestamp, rescan_progress |-> rescan_progress],
          result |-> Err("AlreadyRescanning", <<>>)]
    ELSE [pc |-> "start_rescan", timestamp |-> call.timestamp, calls |-> call.calls,
          seen |-> [rescan_timestamp |-> db_rescan_timestamp, rescan_progress |-> rescan_progress]]

\* start_rescan, the check that no rescan is under way, reading the store and the backend.
start_rescan_check(call, db_rescan_timestamp, rescan_progress) ==
    IF already_rescanning(db_rescan_timestamp, rescan_progress)
    THEN [pc |-> "done", timestamp |-> call.timestamp, calls |-> call.calls,
          seen |-> [rescan_timestamp |-> db_rescan_timestamp, rescan_progress |-> rescan_progress],
          result |-> Err("AlreadyRescanning", <<>>)]
    ELSE [pc |-> "start_rescan", timestamp |-> call.timestamp, calls |-> call.calls,
          seen |-> [rescan_timestamp |-> db_rescan_timestamp, rescan_progress |-> rescan_progress]]

\* The store is written whatever the backend answered.
start_rescan_trigger_unchecked(call, answer) ==
    [pc |-> "set_rescan", timestamp |-> call.timestamp, seen |-> call.seen,
     calls |-> Append(call.calls, [fn |-> "start_rescan", desc |-> "main_descriptor",
                                   timestamp |-> call.timestamp, answer |-> answer])]

\* start_rescan, the call of the backend, which gives this answer.
start_rescan_trigger(call, answer) ==
    LET calls == Append(call.calls, [fn |-> "start_rescan", desc |-> "main_descriptor",
                                     timestamp |-> call.timestamp, answer |-> answer])
    IN  IF is_ok(answer)
        THEN [pc |-> "set_rescan", timestamp |-> call.timestamp, seen |-> call.seen,
              calls |-> calls]
        ELSE [pc |-> "done", timestamp |-> call.timestamp, seen |-> call.seen, calls |-> calls,
              result |-> Err("RescanTrigger", answer.args)]

\* start_rescan, the write of the store and the return.
start_rescan_set(call) ==
    [pc |-> "done", timestamp |-> call.timestamp, seen |-> call.seen,
     calls |-> Append(call.calls, [fn |-> "set_rescan", timestamp |-> call.timestamp]),
     result |-> Ok(<<>>)]

(***************************************************************************)
(* get_info                                                                *)
(***************************************************************************)
\* The progress of the backend is reported whether or not the store waits for a rescan.
get_info_of_backend(db_chain_tip, db_rescan_timestamp, backend_rescan_progress) ==
    [blockheight |-> IF is_some(db_chain_tip) THEN db_chain_tip.v.height ELSE 0,
     rescan_progress |-> backend_rescan_progress]

\* DaemonControl::get_info: blockheight and rescan_progress, the fields read from the
\* store and the backend. A progress is a number of hundredths: 100 stands for 1.0.
get_info(db_chain_tip, db_rescan_timestamp, backend_rescan_progress) ==
    [blockheight |-> IF is_some(db_chain_tip) THEN db_chain_tip.v.height ELSE 0,
     rescan_progress |->
         IF is_none(db_rescan_timestamp) THEN None
         ELSE IF is_some(backend_rescan_progress) THEN Some(backend_rescan_progress.v)
         ELSE Some(100)]

(***************************************************************************)
(* gethistory                                                              *)
(***************************************************************************)
\* time >= start && time <= end
in_bound(time, start, end) == time >= start /\ time <= end

\* Vec::truncate(limit as usize)
truncate(seq, limit) == IF Len(seq) <= limit THEN seq ELSE SubSeq(seq, 1, limit)

\* x is put behind the elements of a sorted sequence that come at or after its date.
RECURSIVE insert_by_date(_, _)
insert_by_date(sorted, x) ==
    IF sorted = <<>> THEN <<x>>
    ELSE IF sorted[1].date >= x.date THEN <<sorted[1]>> \o insert_by_date(Tail(sorted), x)
    ELSE <<x>> \o sorted

\* sort_by(|a, b| b.date.cmp(&a.date)): a stable sort, the latest date first.
RECURSIVE sort_by_date_desc(_)
sort_by_date_desc(seq) ==
    IF seq = <<>> THEN <<>>
    ELSE insert_by_date(sort_by_date_desc(SubSeq(seq, 1, Len(seq) - 1)), seq[Len(seq)])

\* if !vec.contains(&row) { vec.push(row) }
push_new(seq, x) == IF x \in Range(seq) THEN seq ELSE Append(seq, x)

\* DummyDatabase::list_updated_coins, first loop: the (txid, time) of the transactions
\* that were confirmed between start and end, the coins being met in this order.
RECURSIVE txids_and_time(_, _, _, _, _)
txids_and_time(db_coins, order, start, end, i) ==
    IF i = 0 THEN <<>>
    ELSE LET coin == db_coins[order[i]]
             rows == txids_and_time(db_coins, order, start, end, i - 1)
             received == IF is_some(coin.block_time) /\ in_bound(coin.block_time.v, start, end)
                         THEN push_new(rows, [txid |-> coin.outpoint.txid,
                                              date |-> coin.block_time.v])
                         ELSE rows
         IN  IF is_some(coin.spend_block) /\ in_bound(coin.spend_block.v.time, start, end)
             THEN push_new(received, [txid |-> coin.spend_txid.v,
                                      date |-> coin.spend_block.v.time])
             ELSE received

\* DummyDatabase::list_updated_coins: the coins created or spent by one of the limit
\* latest transactions between start and end, in the order the coins are met.
list_updated_coins(db_coins, order, start, end, limit) ==
    LET rows == truncate(sort_by_date_desc(txids_and_time(db_coins, order, start, end, Len(order))),
                         limit)
        updated(coin) == \E i \in 1..Len(rows) :
                            \/ coin.outpoint.txid = rows[i].txid
                            \/ coin.spend_txid = Some(rows[i].txid)
    IN  SelectSeq([i \in 1..Len(order) |-> db_coins[order[i]]], updated)

\* DummyBitcoind::wallet_transaction
wallet_transaction(txs, id) == IF id \in DOMAIN txs THEN Some(txs[id]) ELSE None

\* A spend confirmed at any time counts.
spent_at_any_time(coin, start, end) ==
    /\ is_some(coin.spend_txid)
    /\ is_some(coin.spend_block)

\* The coins of a spend that gethistory gathers under the txid of their spending
\* transaction: those whose spend was confirmed between start and end.
spent_in_bound(coin, start, end) ==
    /\ is_some(coin.spend_txid)
    /\ is_some(coin.spend_block)
    /\ in_bound(coin.spend_block.v.time, start, end)

\* A confirmed change coin gives a receive event as well.
RECURSIVE receive_events_of_any(_, _, _, _)
receive_events_of_any(updated_coins, start, end, i) ==
    IF i = 0 THEN Ok(<<>>)
    ELSE LET coin == updated_coins[i]
             events == receive_events_of_any(updated_coins, start, end, i - 1)
         IN  IF ~is_confirmed(coin) THEN events
             ELSE IF in_bound(coin.block_time.v, start, end)
             THEN Ok(Append(events.v,
                            [kind |-> "receive", amount |-> coin.amount, miner_fee |-> None,
                             date |-> coin.block_time.v, txid |-> coin.outpoint.txid,
                             coins |-> <<coin.outpoint>>]))
             ELSE events

\* gethistory, the receive events: one for each confirmed coin that is not change and
\* was received between start and end.
RECURSIVE receive_events(_, _, _, _)
receive_events(updated_coins, start, end, i) ==
    IF i = 0 THEN Ok(<<>>)
    ELSE LET coin == updated_coins[i]
             events == receive_events(updated_coins, start, end, i - 1)
         IN  IF ~is_ok(events) THEN events
             ELSE IF ~is_confirmed(coin) \/ coin.is_change THEN events
             ELSE IF is_none(coin.block_time) THEN Panic("Coin is confirmed")
             ELSE IF in_bound(coin.block_time.v, start, end)
             THEN Ok(Append(events.v,
                            [kind |-> "receive", amount |-> coin.amount, miner_fee |-> None,
                             date |-> coin.block_time.v, txid |-> coin.outpoint.txid,
                             coins |-> <<coin.outpoint>>]))
             ELSE events

\* The sum of the values of the outputs of spend_tx from position vout on that are, or
\* are not, the change coins among updated_coins. None is an overflow.
RECURSIVE outputs_amount(_, _, _, _)
outputs_amount(tx, updated_coins, change, i) ==
    IF i > Len(tx.output) THEN Some(U(0))
    ELSE LET rest == outputs_amount(tx, updated_coins, change, i + 1)
             is_change_output ==
                 \E j \in 1..Len(updated_coins) :
                     /\ updated_coins[j].outpoint.txid = txid(tx)
                     /\ updated_coins[j].outpoint.vout = i - 1
                     /\ updated_coins[j].is_change
         IN  IF is_none(rest) THEN None
             ELSE IF is_change_output = change THEN checked_add(tx.output[i].value, rest.v)
             ELSE rest

\* spent_coins.iter().map(|vlt| vlt.amount.to_sat()).sum::<u64>()
RECURSIVE sum_amounts(_, _)
sum_amounts(spent_coins, i) ==
    IF i > Len(spent_coins) THEN Some(U(0))
    ELSE LET rest == sum_amounts(spent_coins, i + 1)
         IN  IF is_none(rest) THEN None ELSE checked_add(spent_coins[i].amount, rest.v)

\* gethistory, the event of one spending transaction: None when the backend does not
\* know the transaction. An overflow of u64 is taken as the panic of a debug build.
spend_event(wallet_txs, updated_coins, id, spent_coins) ==
    LET known == wallet_transaction(wallet_txs, id)
        recipients_amount == outputs_amount(known.v, updated_coins, FALSE, 1)
        change_amount == outputs_amount(known.v, updated_coins, TRUE, 1)
        out_amount == checked_add(recipients_amount.v, change_amount.v)
        in_amount == sum_amounts(spent_coins, 1)
        fees == checked_sub(in_amount.v, out_amount.v)
    IN  IF is_none(known) THEN Ok(None)
        ELSE IF is_none(recipients_amount) \/ is_none(change_amount) \/ is_none(in_amount)
        THEN Panic("attempt to add with overflow")
        ELSE IF is_none(out_amount) THEN Panic("attempt to add with overflow")
        ELSE IF is_none(fees) THEN Panic("Funds moving include funds going back")
        ELSE IF spent_coins = <<>> THEN Panic("Transaction spent coins")
        ELSE IF is_none(spent_coins[1].spend_block) THEN Panic("Coin is spent")
        ELSE Ok(Some([kind |-> "spend", amount |-> recipients_amount.v, miner_fee |-> Some(fees.v),
                      date |-> spent_coins[1].spend_block.v.time, txid |-> id,
                      coins |-> [j \in 1..Len(spent_coins) |-> spent_coins[j].outpoint]]))

\* gethistory, the spend events: the spending transactions are met in this order.
RECURSIVE spend_events(_, _, _, _, _, _)
spend_events(wallet_txs, updated_coins, spend_order, start, end, i) ==
    IF i = 0 THEN Ok(<<>>)
    ELSE LET events == spend_events(wallet_txs, updated_coins, spend_order, start, end, i - 1)
             spent(coin) == spent_in_bound(coin, start, end) /\ coin.spend_txid.v = spend_order[i]
             event == spend_event(wallet_txs, updated_coins, spend_order[i],
                                  SelectSeq(updated_coins, spent))
         IN  IF ~is_ok(events) THEN events
             ELSE IF ~is_ok(event) THEN event
             ELSE IF is_none(event.v) THEN events
             ELSE Ok(Append(events.v, event.v.v))

\* The events are cut to the limit as they come.
sort_and_truncate_unsorted(events, limit) == truncate(events, limit)

\* events.sort_by(|evt1, evt2| evt2.date.cmp(&evt1.date)); events.truncate(limit)
sort_and_truncate(events, limit) == truncate(sort_by_date_desc(events), limit)

\* gethistory, from the coins that list_updated_coins gave to the sort: the events as
\* they are pushed. tx_order is the order in which the map of the spends hands out its
\* txids.
history_events(updated_coins, wallet_txs, start, end, tx_order) ==
    LET in_spends(id) == \E j \in 1..Len(updated_coins) :
                            /\ spent_in_bound(updated_coins[j], start, end)
                            /\ updated_coins[j].spend_txid.v = id
        spend_order == SelectSeq(tx_order, in_spends)
        received == receive_events(updated_coins, start, end, Len(updated_coins))
        spent == spend_events(wallet_txs, updated_coins, spend_order, start, end, Len(spend_order))
    IN  IF ~is_ok(received) THEN received
        ELSE IF ~is_ok(spent) THEN spent
        ELSE Ok(received.v \o spent.v)

\* DaemonControl::gethistory. coin_order is the order in which the store hands out its
\* coins. Next to the result: the coins that the store gave and the events as they were
\* pushed.
gethistory(db_coins, wallet_txs, start, end, limit, coin_order, tx_order) ==
    LET updated_coins == list_updated_coins(db_coins, coin_order, start, end, limit)
        events == history_events(updated_coins, wallet_txs, start, end, tx_order)
    IN  [updated |-> updated_coins, events |-> events,
         result |-> IF ~is_ok(events) THEN events ELSE Ok(sort_and_truncate(events.v, limit))]

(***************************************************************************)
\* The derivation indices stay below MaxIndex.
MaxIndex == 2

\* create_spend is called with at most MaxOutpoints outpoints.
MaxOutpoints == 2

\* The coins the chain-sync may insert: unconfirmed and unspent. The first is the
\* coin of the tests; the others are worth 2 BTC and more than MAX_MONEY.
NewCoins ==
    {Coin(OutPoint(1), U(100000), 13, FALSE),
     Coin(OutPoint(2), U(2 * COIN_VALUE), 34, TRUE),
     Coin(OutPoint(2), <<0, 2200, 0, 0, 0>>, 34, TRUE)}

\* The transactions the chain-sync may see spending a coin.
SpendTxids == {txid(FundingTx(3))}

\* The blocks the chain-sync may see: (height, time).
Blocks == {<<1, 1>>}

SeqsUpTo(S, n) == UNION {[1..k -> S] : k \in 0..n}

OutpointLists == SeqsUpTo(Outpoints, MaxOutpoints)

\* Destination values: below DUST, the values of the tests, above MAX_MONEY.
DestinationValues == {U(4500), U(10000), U(95000), <<0, 2100, 0, 0, 1>>}

\* The destination maps; a second destination is worth 4500 or 10000 sat.
DestinationMaps ==
    UNION {{m \in [A -> DestinationValues] :
                "addr_b" \in A => m["addr_b"] \in {U(4500), U(10000)}} : A \in SUBSET Addresses}

\* The orders in which a HashMap may iterate over its keys.
Orders(map) ==
    {order \in [1..Cardinality(DOMAIN map) -> DOMAIN map] : Range(order) = DOMAIN map}

\* Feerates: invalid, the feerates of the tests, one that a 5000 sat fee misses by less
\* than 10%, one that makes the fee of a 2 BTC coin exceed MAX_FEE, and one whose
\* product by 9 exceeds u64::MAX.
Feerates == {U(0), U(1), U(2), U(40), U(1000000), <<300, 0, 0, 0, 0>>}

\* The keys of the descriptor and the signatures a signer may produce.
SigMaps ==
    {EmptyMap, [k \in {"owner"} |-> "sig_1"], [k \in {"owner"} |-> "sig_2"],
     [k \in {"owner", "heir"} |-> "sig_1"]}

\* The transactions of the PSBTs handed to update_spend: one spends the first coin,
\* one both coins, one the first coin and an outpoint that is never a coin of the wallet.
SpendTx(ops) ==
    Transaction([i \in 1..Len(ops) |-> [previous_output |-> ops[i]]],
                <<[value |-> U(10000), script_pubkey |-> script_pubkey("addr_a")]>>)

TxA == SpendTx(<<OutPoint(1)>>)

TxB == SpendTx(<<OutPoint(1), OutPoint(2)>>)

TxE == SpendTx(<<OutPoint(1), OutPoint(3)>>)

SignedIn(sigs) == [PsbtIn(None, None, {}) EXCEPT !.partial_sigs = sigs]

\* The PSBTs handed to update_spend, with their signatures; one has fewer PSBT inputs
\* than its transaction has inputs.
Psbts ==
    {Psbt(TxA, <<SignedIn(m)>>, <<PsbtOutDefault>>) : m \in SigMaps}
    \cup {Psbt(TxB, <<SignedIn(m[1]), SignedIn(m[2])>>, <<PsbtOutDefault>>) :
              m \in {EmptyMap, [k \in {"owner"} |-> "sig_1"]}
                     \X {EmptyMap, [k \in {"owner"} |-> "sig_1"]}}
    \cup {Psbt(TxB, <<SignedIn(EmptyMap)>>, <<PsbtOutDefault>>),
          Psbt(TxE, <<SignedIn(EmptyMap), SignedIn(EmptyMap)>>, <<PsbtOutDefault>>)}

Txids == {txid(TxA), txid(TxB), txid(TxE)}

\* The block time of the tip of the backend's chain.
TipTime == MAINNET_GENESIS_TIME + 3

\* At most MaxCallers start_rescan calls run at the same time.
MaxCallers == 2

Callers == 1..MaxCallers

\* The timestamps given to start_rescan: before the genesis block, the genesis time,
\* the second after it, the second before the tip, the time of the tip, the second after.
Timestamps == {MAINNET_GENESIS_TIME - 1, MAINNET_GENESIS_TIME, MAINNET_GENESIS_TIME + 1,
               TipTime - 1, TipTime, TipTime + 1}

\* What the backend answers to broadcast_tx and to start_rescan.
BackendAnswers == {Ok(<<>>), Err("message", <<"rejected">>)}

\* The block times of gethistory go from 1 to MaxTime.
MaxTime == 2

HistoryTimes == 1..MaxTime

\* The blocks the chain-sync sees while the history is built: (height, time).
HistoryBlocks == {<<t, t>> : t \in HistoryTimes}

\* The limits given to gethistory go from 0 to MaxLimit.
MaxLimit == 3

\* The transaction that spends the two deposits of the history: 4000 sat to a
\* recipient, 95000 sat of change, the rest in fees.
TxChange ==
    Transaction(<<[previous_output |-> OutPoint(1)], [previous_output |-> OutPoint(2)]>>,
                <<[value |-> U(4000), script_pubkey |-> script_pubkey("addr_a")],
                  [value |-> U(95000), script_pubkey |-> desc_script_pubkey(derive(TRUE, 2))]>>)

\* The transactions that spend the coins of the history.
HistoryTxs == {TxChange}

\* The coins of the history: a deposit worth less than the outputs of TxChange, a coin
\* worth more that is a deposit or the change of an earlier transaction, and the
\* change output of TxChange.
HistoryCoins ==
    {Coin(OutPoint(1), U(50000), 13, FALSE),
     Coin(OutPoint(2), U(200000), 34, FALSE),
     Coin(OutPoint(2), U(200000), 1, TRUE),
     Coin([txid |-> txid(TxChange), vout |-> 1], U(95000), 2, TRUE)}

HistoryOutpoints == {coin.outpoint : coin \in HistoryCoins}

(***************************************************************************)
(* State machine. ret is the response of the command that has just run,    *)
(* until its caller takes it; the commands are synchronous.                *)
(***************************************************************************)
Idle == [op |-> "idle"]

Init ==
    /\ coins = EmptyMap
    /\ deposit_index = 0
    /\ change_index = 0
    /\ spend_txs = EmptyMap
    /\ returned = <<>>
    /\ ret = Idle
    /\ rescan_timestamp = None
    /\ bitcoin = [txs |-> EmptyMap, rescan_progress |-> None, tip_time |-> TipTime]
    /\ rescans = [t \in Callers |-> Idle]
    /\ address_calls = [t \in Callers |-> Idle]
    /\ curr_tip = None

\* The caller takes the response.
Return ==
    /\ ret # Idle
    /\ ret' = Idle
    /\ UNCHANGED <<coins, deposit_index, change_index, spend_txs, returned, curr_tip, address_calls, rescan_vars>>

\* DummyDatabase::new_unspent_coins, of a one-coin slice that keeps to the contract of
\* DatabaseConnection::new_unspent_coins ("Coins must not already be in database").
\* The store takes its lock for each element of a slice, so a longer slice is a
\* succession of these.
NewUnspentCoins(coin) ==
    /\ ret = Idle
    /\ coin.outpoint \notin DOMAIN coins
    /\ coins' = Insert(coins, coin.outpoint, coin)
    /\ UNCHANGED <<deposit_index, change_index, spend_txs, returned, curr_tip, address_calls, ret, rescan_vars>>

\* The height is written and the time is not.
ConfirmCoinsHeightOnly(op, height, time) ==
    /\ ret = Idle
    /\ op \in DOMAIN coins
    /\ is_none(coins[op].block_height)
    /\ coins' = [coins EXCEPT ![op].block_height = Some(height)]
    /\ UNCHANGED <<deposit_index, change_index, spend_txs, returned, curr_tip, address_calls, ret, rescan_vars>>

\* DummyDatabase::confirm_coins, of a one-element slice whose coin passes the asserts.
ConfirmCoins(op, height, time) ==
    /\ ret = Idle
    /\ op \in DOMAIN coins
    /\ is_none(coins[op].block_height)
    /\ is_none(coins[op].block_time)
    /\ coins' = [coins EXCEPT ![op].block_height = Some(height), ![op].block_time = Some(time)]
    /\ UNCHANGED <<deposit_index, change_index, spend_txs, returned, curr_tip, address_calls, ret, rescan_vars>>

\* DummyDatabase::spend_coins, of a one-element slice whose coin passes the asserts.
SpendCoins(op, spend_txid) ==
    /\ ret = Idle
    /\ op \in DOMAIN coins
    /\ is_none(coins[op].spend_txid)
    /\ is_none(coins[op].spend_block)
    /\ coins' = [coins EXCEPT ![op].spend_txid = Some(spend_txid)]
    /\ UNCHANGED <<deposit_index, change_index, spend_txs, returned, curr_tip, address_calls, ret, rescan_vars>>

\* DummyDatabase::confirm_spend, of a one-element slice whose coin passes the asserts.
ConfirmSpend(op, spend_txid, height, time) ==
    /\ ret = Idle
    /\ op \in DOMAIN coins
    /\ is_some(coins[op].spend_txid)
    /\ is_none(coins[op].spend_block)
    /\ coins' = [coins EXCEPT ![op].spend_txid = Some(spend_txid),
                              ![op].spend_block = Some([height |-> height, time |-> time])]
    /\ UNCHANGED <<deposit_index, change_index, spend_txs, returned, curr_tip, address_calls, ret, rescan_vars>>

\* DummyDatabase::increment_change_index
increment_change_index == change_index' = change_index + 1

\* create_spend calling increment_change_index as soon as its arguments are accepted.
CreateSpendIncrementFirst(coins_outpoints, destinations, order, feerate_vb) ==
    LET index == db_change_index
        r == create_spend(coins, index, coins_outpoints, destinations, order, feerate_vb)
        incremented == ~(r.result.tag = "Err"
                         /\ r.result.kind \in {"NoOutpoint", "NoDestination", "InvalidFeerate"})
    IN  /\ ret = [op |-> "idle"]
        /\ change_index < MaxIndex
        /\ IF incremented THEN change_index' = change_index + 1 ELSE UNCHANGED change_index
        /\ ret' = [op |-> "create_spend", coins_outpoints |-> coins_outpoints,
                   destinations |-> destinations, order |-> order, feerate_vb |-> feerate_vb,
                   index |-> index, incremented |-> incremented, result |-> r.result]
        /\ UNCHANGED <<coins, deposit_index, spend_txs, returned, curr_tip, address_calls, rescan_vars>>

\* DaemonControl::create_spend. The call records whether it incremented the change index.
CreateSpend(coins_outpoints, destinations, order, feerate_vb) ==
    LET index == db_change_index
        r == create_spend(coins, index, coins_outpoints, destinations, order, feerate_vb)
    IN  /\ ret = Idle
        /\ change_index < MaxIndex
        /\ IF r.incremented THEN increment_change_index ELSE UNCHANGED change_index
        /\ ret' = [op |-> "create_spend", coins_outpoints |-> coins_outpoints,
                   destinations |-> destinations, order |-> order, feerate_vb |-> feerate_vb,
                   index |-> index, incremented |-> r.incremented, result |-> r.result]
        /\ UNCHANGED <<coins, deposit_index, spend_txs, returned, curr_tip, address_calls, rescan_vars>>

\* DummyDatabase::increment_receive_index
increment_receive_index == deposit_index' = deposit_index + 1

\* DaemonControl::get_new_address. returned is the history of the addresses handed out.
GetNewAddress ==
    LET index == db_receive_index
    IN  /\ ret = Idle
        /\ deposit_index < MaxIndex
        /\ increment_receive_index
        /\ ret' = [op |-> "get_new_address", receive_index |-> deposit_index,
                   result |-> get_new_address(index)]
        /\ returned' = Append(returned, get_new_address(index).address)
        /\ UNCHANGED <<coins, change_index, spend_txs, rescan_vars, address_calls, curr_tip>>

\* DaemonControl::update_spend. before is the PSBT stored under the txid at the call,
\* store_before the PSBT store at the call.
UpdateSpend(psbt) ==
    LET r == update_spend(coins, spend_txs, psbt)
    IN  /\ ret = Idle
        /\ spend_txs' = r.spend_txs
        /\ ret' = [op |-> "update_spend", psbt |-> psbt,
                   before |-> spend_tx(spend_txs, txid(psbt.unsigned_tx)),
                   store_before |-> spend_txs, result |-> r.result]
        /\ UNCHANGED <<coins, deposit_index, change_index, returned, curr_tip, address_calls, rescan_vars>>

\* DaemonControl::list_spend
ListSpend(order) ==
    /\ ret = Idle
    /\ ret' = [op |-> "list_spend", result |-> [spend_txs |-> list_spend(spend_txs, order)]]
    /\ UNCHANGED <<coins, deposit_index, change_index, spend_txs, returned, curr_tip, address_calls, rescan_vars>>

\* DaemonControl::delete_spend
DeleteSpend(id) ==
    /\ ret = Idle
    /\ spend_txs' = delete_spend(spend_txs, id)
    /\ ret' = [op |-> "delete_spend", txid |-> id]
    /\ UNCHANGED <<coins, deposit_index, change_index, returned, curr_tip, address_calls, rescan_vars>>

\* DaemonControl::broadcast_spend, the backend giving this answer to broadcast_tx.
BroadcastSpend(id, answer) ==
    LET r == broadcast_spend(spend_txs, id, answer)
    IN  /\ ret = Idle
        /\ spend_txs' = r.spend_txs
        /\ ret' = [op |-> "broadcast_spend", txid |-> id, answer |-> answer,
                   store_before |-> spend_txs, calls |-> r.calls, result |-> r.result]
        /\ UNCHANGED <<coins, deposit_index, change_index, returned, curr_tip, address_calls, rescan_vars>>

\* DaemonControl::start_rescan is called by the caller t: the check of the timestamp.
StartRescan(t, timestamp) ==
    /\ rescans[t] = Idle
    /\ rescans' = [rescans EXCEPT ![t] = start_rescan_begin(timestamp, bitcoin.tip_time)]
    /\ UNCHANGED <<coins, deposit_index, change_index, spend_txs, returned, curr_tip, address_calls, ret,
                   rescan_timestamp, bitcoin>>

\* start_rescan of the caller t: the check that no rescan is under way.
CheckRescan(t) ==
    /\ rescans[t] # Idle
    /\ rescans[t].pc = "check_rescan"
    /\ rescans' = [rescans EXCEPT ![t] =
                       start_rescan_check(@, rescan_timestamp, bitcoin.rescan_progress)]
    /\ UNCHANGED <<coins, deposit_index, change_index, spend_txs, returned, curr_tip, address_calls, ret,
                   rescan_timestamp, bitcoin>>

\* start_rescan of the caller t: backend.start_rescan, which gives this answer and is
\* rescanning from then on if the answer is Ok. outstanding tells whether a rescan was
\* under way at the call.
TriggerRescan(t, answer) ==
    /\ rescans[t] # Idle
    /\ rescans[t].pc = "start_rescan"
    /\ rescans' = [rescans EXCEPT ![t] =
                       [outstanding |-> is_some(rescan_timestamp)
                                            \/ is_some(bitcoin.rescan_progress)]
                       @@ start_rescan_trigger(@, answer)]
    /\ bitcoin' = IF is_ok(answer) THEN [bitcoin EXCEPT !.rescan_progress = Some(0)]
                  ELSE bitcoin
    /\ UNCHANGED <<coins, deposit_index, change_index, spend_txs, returned, curr_tip, address_calls, ret,
                   rescan_timestamp>>

\* start_rescan of the caller t: set_rescan and the return.
SetRescan(t) ==
    /\ rescans[t] # Idle
    /\ rescans[t].pc = "set_rescan"
    /\ rescan_timestamp' = Some(rescans[t].timestamp)
    /\ rescans' = [rescans EXCEPT ![t] =
                       [outstanding |-> @.outstanding] @@ start_rescan_set(@)]
    /\ UNCHANGED <<coins, deposit_index, change_index, spend_txs, returned, curr_tip, address_calls, ret, bitcoin>>

\* The caller t takes the result of its start_rescan.
ReturnRescan(t) ==
    /\ rescans[t] # Idle
    /\ rescans[t].pc = "done"
    /\ rescans' = [rescans EXCEPT ![t] = Idle]
    /\ UNCHANGED <<coins, deposit_index, change_index, spend_txs, returned, curr_tip, address_calls, ret,
                   rescan_timestamp, bitcoin>>

\* The backend starts a rescan of its wallet that this daemon did not ask for.
ExternalRescan ==
    /\ is_none(bitcoin.rescan_progress)
    /\ bitcoin' = [bitcoin EXCEPT !.rescan_progress = Some(0)]
    /\ UNCHANGED <<coins, deposit_index, change_index, spend_txs, returned, curr_tip, address_calls, ret,
                   rescan_timestamp, rescans>>

\* The backend comes to the end of its rescan.
BackendRescanDone ==
    /\ is_some(bitcoin.rescan_progress)
    /\ bitcoin' = [bitcoin EXCEPT !.rescan_progress = None]
    /\ UNCHANGED <<coins, deposit_index, change_index, spend_txs, returned, curr_tip, address_calls, ret,
                   rescan_timestamp, rescans>>

\* The chain-sync sees that the rescan it waited for is over: complete_rescan.
CompleteRescan ==
    /\ is_some(rescan_timestamp)
    /\ is_none(bitcoin.rescan_progress)
    /\ rescan_timestamp' = None
    /\ UNCHANGED <<coins, deposit_index, change_index, spend_txs, returned, curr_tip, address_calls, ret,
                   bitcoin, rescans>>

\* DummyDatabase::update_tip, called by the chain-sync
UpdateTip(tip) ==
    /\ curr_tip # Some(tip)
    /\ curr_tip' = Some(tip)
    /\ UNCHANGED <<coins, deposit_index, change_index, spend_txs, returned, ret,
                   rescan_vars, address_calls>>

\* DaemonControl::get_info. seen is what the store and the backend held at the call.
GetInfo ==
    /\ ret = Idle
    /\ ret' = [op |-> "get_info",
               seen |-> [curr_tip |-> curr_tip, rescan_timestamp |-> rescan_timestamp,
                         rescan_progress |-> bitcoin.rescan_progress],
               result |-> get_info(curr_tip, rescan_timestamp, bitcoin.rescan_progress)]
    /\ UNCHANGED <<coins, deposit_index, change_index, spend_txs, returned, curr_tip,
                   rescan_vars, address_calls>>

\* The backend comes to know a transaction of the wallet.
WalletTransaction(tx) ==
    /\ ret = Idle
    /\ txid(tx) \notin DOMAIN bitcoin.txs
    /\ bitcoin' = [bitcoin EXCEPT !.txs = Insert(@, txid(tx), tx)]
    /\ UNCHANGED <<coins, deposit_index, change_index, spend_txs, returned, curr_tip, address_calls, ret,
                   rescan_timestamp, rescans>>

\* DaemonControl::gethistory
GetHistory(start, end, limit, coin_order, tx_order) ==
    /\ ret = Idle
    /\ ret' = [op |-> "gethistory", start |-> start, end |-> end, limit |-> limit]
               @@ gethistory(coins, bitcoin.txs, start, end, limit, coin_order, tx_order)
    /\ UNCHANGED <<coins, deposit_index, change_index, spend_txs, returned, curr_tip, address_calls, rescan_vars>>

NextSpend ==
    \/ \E coin \in NewCoins : NewUnspentCoins(coin)
    \/ \E op \in Outpoints, t \in SpendTxids : SpendCoins(op, t)
    \/ \E op \in Outpoints, t \in SpendTxids, b \in Blocks : ConfirmSpend(op, t, b[1], b[2])
    \/ \E ops \in OutpointLists, destinations \in DestinationMaps, feerate_vb \in Feerates :
           \E order \in Orders(destinations) : CreateSpend(ops, destinations, order, feerate_vb)
    \/ Return

SpecSpend == Init /\ [][NextSpend]_vars

\* The address and PSBT commands, next to a chain-sync that finds and confirms coins.
NextWallet ==
    \/ \E coin \in NewCoins : NewUnspentCoins(coin)
    \/ \E op \in Outpoints, b \in Blocks : ConfirmCoins(op, b[1], b[2])
    \/ GetNewAddress
    \/ \E psbt \in Psbts : UpdateSpend(psbt)
    \/ \E order \in Orders(spend_txs) : ListSpend(order)
    \/ \E id \in Txids : DeleteSpend(id)
    \/ Return

SpecWallet == Init /\ [][NextWallet]_vars

\* broadcast_spend, next to update_spend and to a chain-sync that finds coins and sees
\* them being spent.
NextBroadcast ==
    \/ \E coin \in NewCoins : NewUnspentCoins(coin)
    \/ \E op \in Outpoints, t \in SpendTxids : SpendCoins(op, t)
    \/ \E psbt \in Psbts : UpdateSpend(psbt)
    \/ \E id \in Txids, answer \in BackendAnswers : BroadcastSpend(id, answer)
    \/ Return

SpecBroadcast == Init /\ [][NextBroadcast]_vars

\* The PSBTs handed to update_spend next to create_spend: a PSBT of TxA, and the PSBT
\* that create_spend returns for the coin of the tests, as the tests hand it over.
CreatedPsbts ==
    {Psbt(TxA, <<SignedIn(EmptyMap)>>, <<PsbtOutDefault>>),
     create_spend([op \in {OutPoint(1)} |-> Coin(OutPoint(1), U(100000), 13, FALSE)], 0,
                  <<OutPoint(1)>>, [a \in {"addr_a"} |-> U(10000)], <<"addr_a">>,
                  U(1)).result.v}

\* create_spend next to update_spend.
NextSpendStore ==
    \/ \E coin \in NewCoins : NewUnspentCoins(coin)
    \/ \E ops \in OutpointLists, destinations \in DestinationMaps, feerate_vb \in Feerates :
           \E order \in Orders(destinations) : CreateSpend(ops, destinations, order, feerate_vb)
    \/ \E psbt \in CreatedPsbts : UpdateSpend(psbt)
    \/ Return

SpecSpendStore == Init /\ [][NextSpendStore]_vars

\* The feerates of the tests.
TestFeerates == {U(1), U(2)}

\* The two commands that derive at a stored index, get_new_address and create_spend,
\* called one after the other.
NextIndexes ==
    \/ \E coin \in NewCoins : NewUnspentCoins(coin)
    \/ GetNewAddress
    \/ \E ops \in OutpointLists, destinations \in DestinationMaps, feerate_vb \in TestFeerates :
           \E order \in Orders(destinations) : CreateSpend(ops, destinations, order, feerate_vb)
    \/ Return

SpecIndexes == Init /\ [][NextIndexes]_vars

\* The steps of the start_rescan of the caller t.
RescanSteps(t) ==
    \/ \E timestamp \in Timestamps : StartRescan(t, timestamp)
    \/ CheckRescan(t)
    \/ \E answer \in BackendAnswers : TriggerRescan(t, answer)
    \/ SetRescan(t)
    \/ ReturnRescan(t)

\* start_rescan called by one caller at a time, next to a backend that may also rescan
\* on its own and to the chain-sync.
NextRescan ==
    \/ RescanSteps(1)
    \/ ExternalRescan
    \/ BackendRescanDone
    \/ CompleteRescan

SpecRescan == Init /\ [][NextRescan]_vars

\* start_rescan called by several callers at the same time; the backend rescans only
\* when it is asked to.
NextRescanRace ==
    \/ \E t \in Callers : RescanSteps(t)
    \/ BackendRescanDone
    \/ CompleteRescan

SpecRescanRace == Init /\ [][NextRescanRace]_vars

\* The concurrent get_new_address calls hand out at most MaxAddresses addresses.
MaxAddresses == 4

\* The get_new_address call of the caller t has yet to increment the receive index.
AddressPending(t) == address_calls[t] # Idle /\ address_calls[t].pc # "done"

\* get_new_address of the caller t: self.db.connection(). start is the receive index
\* of the store when the call begins.
ConnectAddress(t) ==
    /\ address_calls[t] = Idle
    /\ deposit_index + Cardinality({u \in Callers : AddressPending(u)}) < MaxAddresses
    /\ address_calls' = [address_calls EXCEPT ![t] =
                             [op |-> "get_new_address", pc |-> "receive_index",
                              start |-> deposit_index]]
    /\ UNCHANGED <<coins, deposit_index, change_index, spend_txs, returned, curr_tip, ret, rescan_vars>>

\* get_new_address of the caller t: let index = db_conn.receive_index()
ReadReceiveIndex(t) ==
    /\ address_calls[t] # Idle
    /\ address_calls[t].pc = "receive_index"
    /\ address_calls' = [address_calls EXCEPT ![t] =
                             [op |-> "get_new_address", pc |-> "increment_receive_index",
                              start |-> @.start, index |-> db_receive_index]]
    /\ UNCHANGED <<coins, deposit_index, change_index, spend_txs, returned, curr_tip, ret, rescan_vars>>

\* get_new_address of the caller t: db_conn.increment_receive_index, then the address
\* derived at the index read before.
IncrementReceiveIndex(t) ==
    /\ address_calls[t] # Idle
    /\ address_calls[t].pc = "increment_receive_index"
    /\ increment_receive_index
    /\ returned' = Append(returned, get_new_address(address_calls[t].index).address)
    /\ address_calls' = [address_calls EXCEPT ![t] =
                             [op |-> "get_new_address", pc |-> "done",
                              start |-> @.start, index |-> @.index,
                              result |-> get_new_address(@.index)]]
    /\ UNCHANGED <<coins, change_index, spend_txs, ret, rescan_vars, curr_tip>>

\* The caller t takes its address.
ReturnAddress(t) ==
    /\ address_calls[t] # Idle
    /\ address_calls[t].pc = "done"
    /\ address_calls' = [address_calls EXCEPT ![t] = Idle]
    /\ UNCHANGED <<coins, deposit_index, change_index, spend_txs, returned, curr_tip, ret, rescan_vars>>

\* get_new_address called by several callers at the same time, each over its own
\* connection to the store.
NextAddressRace ==
    \E t \in Callers :
        \/ ConnectAddress(t)
        \/ ReadReceiveIndex(t)
        \/ IncrementReceiveIndex(t)
        \/ ReturnAddress(t)

SpecAddressRace == Init /\ [][NextAddressRace]_vars

\* The tips the chain-sync may store: the genesis block, the block after it, and the
\* tip of the dummy backend.
Tips == {[hash |-> "block_0", height |-> 0], [hash |-> "block_1", height |-> 1],
         [hash |-> "block_100", height |-> 100]}

\* get_info next to start_rescan, the backend and the chain-sync.
NextInfo ==
    \/ RescanSteps(1)
    \/ ExternalRescan
    \/ BackendRescanDone
    \/ CompleteRescan
    \/ \E tip \in Tips : UpdateTip(tip)
    \/ GetInfo
    \/ Return

SpecInfo == Init /\ [][NextInfo]_vars

\* DummyDatabase::list_spending_coins: every coin with a spend_txid, whether its spend
\* is in a block or not.
list_spending_coins(db_coins) ==
    [op \in {o \in DOMAIN db_coins : is_some(db_coins[o].spend_txid)} |-> db_coins[op]]

\* A caller lists the spending coins.
ListSpendingCoins ==
    /\ ret = Idle
    /\ ret' = [op |-> "list_spending_coins", result |-> list_spending_coins(coins)]
    /\ UNCHANGED <<coins, deposit_index, change_index, spend_txs, returned, curr_tip, address_calls, rescan_vars>>

\* DummyDatabase::new_unspent_coins, of a one-coin slice whose outpoint is stored
\* already: HashMap::insert replaces the stored coin by the new one.
NewUnspentCoinsStored(coin) ==
    /\ ret = Idle
    /\ coin.outpoint \in DOMAIN coins
    /\ coins' = Insert(coins, coin.outpoint, coin)
    /\ UNCHANGED <<deposit_index, change_index, spend_txs, returned, curr_tip, address_calls, ret, rescan_vars>>

\* The coins of the store from their insertion to their confirmed spend, next to a
\* caller that lists the spending coins.
NextCoins ==
    \/ \E coin \in NewCoins : NewUnspentCoins(coin)
    \/ \E coin \in NewCoins : NewUnspentCoinsStored(coin)
    \/ \E op \in Outpoints, b \in Blocks : ConfirmCoins(op, b[1], b[2])
    \/ \E op \in Outpoints, t \in SpendTxids : SpendCoins(op, t)
    \/ \E op \in Outpoints, t \in SpendTxids, b \in Blocks : ConfirmSpend(op, t, b[1], b[2])
    \/ ListSpendingCoins
    \/ Return

SpecCoins == Init /\ [][NextCoins]_vars

\* The orders in which the elements of a set may be met.
OrdersOf(S) == {order \in [1..Cardinality(S) -> S] : Range(order) = S}

\* gethistory, next to a chain-sync that finds coins, confirms them and sees them
\* spent by the transactions of its input, which spend these coins. A transaction is
\* confirmed in one block: the spends of its coins are confirmed in the same block.
NextHistory ==
    \/ \E coin \in HistoryCoins : NewUnspentCoins(coin)
    \/ \E op \in HistoryOutpoints, b \in HistoryBlocks : ConfirmCoins(op, b[1], b[2])
    \/ \E tx \in HistoryTxs, i \in 1..MaxOutpoints :
          i <= Len(tx.input) /\ SpendCoins(tx.input[i].previous_output, txid(tx))
    \/ \E op \in HistoryOutpoints, b \in HistoryBlocks :
          /\ op \in DOMAIN coins
          /\ is_some(coins[op].spend_txid)
          /\ \A other \in DOMAIN coins :
                (coins[other].spend_txid = coins[op].spend_txid
                    /\ is_some(coins[other].spend_block)) =>
                coins[other].spend_block = Some([height |-> b[1], time |-> b[2]])
          /\ ConfirmSpend(op, coins[op].spend_txid.v, b[1], b[2])
    \/ \E tx \in HistoryTxs : WalletTransaction(tx)
    \/ \E start \in HistoryTimes, end \in HistoryTimes, limit \in 0..MaxLimit,
          coin_order \in OrdersOf(DOMAIN coins),
          tx_order \in OrdersOf({txid(tx) : tx \in HistoryTxs}) :
          GetHistory(start, end, limit, coin_order, tx_order)
    \/ Return

SpecHistory == Init /\ [][NextHistory]_vars

(***************************************************************************)
(* Properties of create_spend. They are stated on the response ret of a    *)
(* call, next to the store as the call left it; create_spend never         *)
(* modifies a coin, so coins is also the coin store the call has read.     *)
(***************************************************************************)
SpendCalled == ret.op = "create_spend"

SpendOk == SpendCalled /\ is_ok(ret.result)

SpendErr(kind) == SpendCalled /\ is_err(ret.result, kind)

RECURSIVE SumU64(_, _)
SumU64(values, i) ==
    IF i > Len(values) THEN U(0) ELSE checked_add(values[i], SumU64(values, i + 1)).v

\* The checks on the shape of the request pass.
ShapeOk == ret.coins_outpoints # <<>> /\ DOMAIN ret.destinations # {} /\ U64Le(U(1), ret.feerate_vb)

\* The positions of the requested outpoints that are unknown or already spent.
Offending ==
    {i \in 1..Len(ret.coins_outpoints) :
        \/ ret.coins_outpoints[i] \notin DOMAIN coins
        \/ is_some(coins[ret.coins_outpoints[i]].spend_txid)}

InRange(value) == U64Le(U(DUST_OUTPUT_SATS), value) /\ U64Le(value, MAX_MONEY)

\* The destinations whose value is out of range.
BadDestinations == {a \in DOMAIN ret.destinations : ~InRange(ret.destinations[a])}

\* The request passes the checks that come before the fee computation.
ChecksOk == ShapeOk /\ Offending = {} /\ BadDestinations = {}

NbDestinations == Cardinality(DOMAIN ret.destinations)

\* Input value, output value of the destinations and sizes, as the claims define them.
InValue == SumU64([i \in 1..Len(ret.coins_outpoints) |-> coins[ret.coins_outpoints[i]].amount], 1)

OutValue == SumU64([i \in 1..NbDestinations |-> ret.destinations[ret.order[i]]], 1)

NoChangeVb ==
    10 + Len(ret.coins_outpoints) * (41 + 45) + NbDestinations * 31

WithChangeVb == NoChangeVb + 43

\* The sanity conditions of a PSBT.
Sane(psbt) ==
    LET tx == psbt.unsigned_tx
        all_utxos == \A i \in 1..Len(psbt.inputs) : is_some(psbt.inputs[i].witness_utxo)
        in_value == SumU64([i \in 1..Len(psbt.inputs) |-> psbt.inputs[i].witness_utxo.v.value], 1)
        out_value == SumU64([i \in 1..Len(tx.output) |-> tx.output[i].value], 1)
        abs_fee == checked_sub(in_value, out_value).v
        vbytes == 10 + 41 * Len(tx.input) + SumSizes(tx.output, 1)
        feerate == checked_div(abs_fee, vbytes).v
    IN  /\ Len(psbt.inputs) = Len(tx.input)
        /\ Len(psbt.outputs) = Len(tx.output)
        /\ \A i \in 1..Len(psbt.inputs) : psbt.inputs[i].bip32_derivation # {}
        /\ all_utxos
        /\ U64Le(out_value, in_value)
        /\ U64Le(abs_fee, U(100000000))
        /\ vbytes >= 1
        /\ U64Le(U(1), feerate)
        /\ U64Le(feerate, U(MAX_FEERATE))

SpendBuilt == SpendOk \/ SpendErr("SanityCheckFailure")

BuiltPsbt == IF SpendOk THEN ret.result.v ELSE ret.result.args[1]

\* C2: a change output is appended if and only if the feerate without change and the
\* feerate with change both exceed the target and the change is worth DUST at least; its
\* value is abs_fee - with_change_vb * feerate, the fee paid is with_change_vb * feerate:
\* 170 sat at 1 sat/vb, 340 sat at 2 sat/vb for one input and two outputs. A change
\* below DUST is left to the fee: it is never the cause of an error.
C2_ChangeDecision ==
    /\ SpendBuilt =>
           LET tx == BuiltPsbt.unsigned_tx
               has_change == Len(tx.output) = NbDestinations + 1
               abs_fee == ToNat(InValue) - ToNat(OutValue)
               feerate == ToNat(ret.feerate_vb)
               paid == ToNat(InValue)
                       - ToNat(SumU64([i \in 1..Len(tx.output) |-> tx.output[i].value], 1))
           IN  /\ IsSmall(InValue) /\ IsSmall(OutValue) /\ IsSmall(ret.feerate_vb)
               /\ has_change <=> /\ abs_fee \div NoChangeVb > feerate
                                 /\ abs_fee \div WithChangeVb > feerate
                                 /\ abs_fee - WithChangeVb * feerate >= DUST_OUTPUT_SATS
               /\ has_change =>
                      /\ tx.output[Len(tx.output)].value = U(abs_fee - WithChangeVb * feerate)
                      /\ paid = WithChangeVb * feerate
               /\ (has_change /\ Len(tx.input) = 1 /\ Len(tx.output) = 2) => paid = 170 * feerate
    /\ (SpendCalled /\ ChecksOk /\ SpendErr("InvalidOutputValue")) =>
           U64Lt(MAX_MONEY, ret.result.args[1])

\* The spend of the tests: one input, a destination and a change output at 2 sat/vb.
C2_Witness ==
    /\ SpendOk
    /\ Len(ret.result.v.unsigned_tx.input) = 1
    /\ Len(ret.result.v.unsigned_tx.output) = 2
    /\ NbDestinations = 1
    /\ ret.feerate_vb = U(2)
    /\ ret.result.v.unsigned_tx.output[2].value = U(89660)

\* C3: the transaction returned has one input per requested outpoint, in caller order,
\* one output per destination with its script and value in the first positions, and
\* at most one more output, the change, in the last position.
C3_TxShape ==
    SpendOk =>
        LET tx == ret.result.v.unsigned_tx
            n == NbDestinations
        IN  /\ [i \in 1..Len(tx.input) |-> tx.input[i].previous_output] = ret.coins_outpoints
            /\ Len(tx.output) \in {n, n + 1}
            /\ {tx.output[i] : i \in 1..n}
                   = {[value |-> ret.destinations[a], script_pubkey |-> [kind |-> "p2wpkh", of |-> a]] :
                          a \in DOMAIN ret.destinations}
            /\ Len(tx.output) = n + 1 =>
                   /\ tx.output[n + 1].script_pubkey.kind = "p2wsh"
                   /\ tx.output[n + 1].script_pubkey.of.is_change

\* Two different coins are spent to two destinations and a change output.
C3_Witness ==
    /\ SpendOk
    /\ Len(ret.coins_outpoints) = 2
    /\ ret.coins_outpoints[1] # ret.coins_outpoints[2]
    /\ NbDestinations = 2
    /\ Len(ret.result.v.unsigned_tx.output) = 3

\* a * ka < b * kb over the natural numbers, for u64 values a, b and small factors.
TimesLt(a, ka, b, kb) ==
    LET x == Carry([i \in 1..NLimbs |-> a[i] * ka], NLimbs, 0)
        y == Carry([i \in 1..NLimbs |-> b[i] * kb], NLimbs, 0)
    IN  x.carry < y.carry \/ (x.carry = y.carry /\ U64Lt(x.limbs, y.limbs))

\* C4: once the earlier checks have passed, the result is InsufficientFunds(in_value,
\* out_value, feerate) if and only if in_value < out_value or
\* floor((in_value - out_value) / nochange_vb) * 10 < feerate * 9; so a PSBT without
\* change pays at least 90% of the target feerate.
C4_InsufficientFunds ==
    (SpendCalled /\ ChecksOk) =>
        LET abs_fee == checked_sub(InValue, OutValue)
            nochange_feerate == checked_div(abs_fee.v, NoChangeVb).v
            short == \/ U64Lt(InValue, OutValue)
                     \/ TimesLt(nochange_feerate, 10, ret.feerate_vb, 9)
        IN  /\ SpendErr("InsufficientFunds") <=> short
            /\ SpendErr("InsufficientFunds") =>
                   ret.result.args = <<InValue, OutValue, ret.feerate_vb>>
            /\ (SpendOk /\ Len(ret.result.v.unsigned_tx.output) = NbDestinations) =>
                   ~TimesLt(nochange_feerate, 10, ret.feerate_vb, 9)

\* C4 holds of the calls whose feerate * 9 is a u64.
C4_WithinU64 ==
    (SpendCalled /\ is_some(checked_mul(ret.feerate_vb, 9))) => C4_InsufficientFunds

\* A PSBT without change is returned that pays less than the target feerate.
C4_Witness ==
    /\ SpendOk
    /\ Len(ret.result.v.unsigned_tx.output) = NbDestinations
    /\ U64Lt(checked_div(checked_sub(InValue, OutValue).v, NoChangeVb).v, ret.feerate_vb)

\* A create_spend that names a coin whose spend_txid is set returns no PSBT, and
\* AlreadySpent is returned only for such a coin.
AlreadySpentRefused ==
    SpendCalled =>
        LET ops == ret.coins_outpoints
            spent == {i \in 1..Len(ops) : ops[i] \in DOMAIN coins /\ coins[ops[i]].spend_txid.some}
            first == CHOOSE i \in spent : \A j \in spent : i <= j
        IN  /\ spent # {} => ~SpendOk
            /\ (ShapeOk /\ spent # {} /\ \A i \in 1..Len(ops) : ops[i] \in DOMAIN coins) =>
                   ret.result = Err("AlreadySpent", <<ops[first]>>)
            /\ SpendErr("AlreadySpent") => \E i \in spent : ret.result.args = <<ops[i]>>

C6_FirstOffending ==
    (SpendCalled /\ ShapeOk) =>
        LET ops == ret.coins_outpoints
            first == CHOOSE i \in Offending : \A j \in Offending : i <= j
        IN  /\ Offending # {} =>
                   ret.result = IF ops[first] \in DOMAIN coins
                                THEN Err("AlreadySpent", <<ops[first]>>)
                                ELSE Err("UnknownOutpoint", <<ops[first]>>)
            /\ (SpendErr("UnknownOutpoint") \/ SpendErr("AlreadySpent")) => Offending # {}

\* The list holds a spent coin and then an unknown outpoint: the error names the first.
C6_Witness ==
    /\ SpendErr("AlreadySpent")
    /\ Len(ret.coins_outpoints) = 2
    /\ ret.result.args = <<ret.coins_outpoints[1]>>
    /\ ret.coins_outpoints[2] \notin DOMAIN coins

\* C7: once the shape and outpoint checks have passed, a destination value below DUST or
\* above MAX_MONEY makes create_spend return InvalidOutputValue of such a value; no
\* PSBT returned has an output, destination or change, outside [DUST, MAX_MONEY].
C7_OutputValues ==
    /\ (SpendCalled /\ ShapeOk /\ Offending = {} /\ BadDestinations # {}) =>
           /\ SpendErr("InvalidOutputValue")
           /\ \E a \in BadDestinations : ret.result.args = <<ret.destinations[a]>>
    /\ SpendOk =>
           \A i \in 1..Len(ret.result.v.unsigned_tx.output) :
               InRange(ret.result.v.unsigned_tx.output[i].value)
    /\ SpendErr("InvalidOutputValue") => ~InRange(ret.result.args[1])

\* A destination above MAX_MONEY is refused although the coin could pay for it.
C7_Witness ==
    /\ SpendErr("InvalidOutputValue")
    /\ U64Lt(MAX_MONEY, ret.result.args[1])
    /\ ret.result.args[1] \in {ret.destinations[a] : a \in DOMAIN ret.destinations}
    /\ U64Lt(ret.result.args[1], InValue)

\* C8: NoOutpoint for an empty outpoint list, else NoDestination for an empty
\* destination map, else InvalidFeerate(f) for a feerate f below 1, whatever the store.
C8_ShapeChecks ==
    SpendCalled =>
        /\ ret.coins_outpoints = <<>> => ret.result = Err("NoOutpoint", <<>>)
        /\ (ret.coins_outpoints # <<>> /\ DOMAIN ret.destinations = {}) =>
               ret.result = Err("NoDestination", <<>>)
        /\ (ret.coins_outpoints # <<>> /\ DOMAIN ret.destinations # {}
                /\ U64Lt(ret.feerate_vb, U(1))) =>
               ret.result = Err("InvalidFeerate", <<ret.feerate_vb>>)
        /\ ShapeOk => ~(SpendErr("NoOutpoint") \/ SpendErr("NoDestination")
                            \/ SpendErr("InvalidFeerate"))

\* The three checks fail at once, over a store that holds coins: NoOutpoint comes first.
C8_Witness ==
    /\ SpendErr("NoOutpoint")
    /\ DOMAIN ret.destinations = {}
    /\ ret.feerate_vb = U(0)
    /\ DOMAIN coins # {}

(***************************************************************************)
(* Properties of get_new_address and update_spend.                         *)
(***************************************************************************)
\* C9: a get_new_address returns the receive address derived at the receive index the
\* store held when the call started and leaves the store one index further; no address
\* is handed out twice.
C9_FreshAddress ==
    /\ ret.op = "get_new_address" =>
           /\ ret.result.address = desc_address(derive(FALSE, ret.receive_index))
           /\ deposit_index = ret.receive_index + 1
           /\ returned[Len(returned)] = ret.result.address
    /\ \A i, j \in 1..Len(returned) : i # j => returned[i] # returned[j]

\* A second address has been handed out, derived at the index after the first one's.
C9_Witness ==
    /\ ret.op = "get_new_address"
    /\ ret.receive_index = 1
    /\ Len(returned) = 2
    /\ returned[1] = desc_address(derive(FALSE, 0))

UpdateOk == ret.op = "update_spend" /\ is_ok(ret.result)

\* The PSBT p holds, at the same input, every signature that the PSBT q holds.
Carries(p, q) ==
    \A i \in 1..Len(q.inputs) : \A k \in DOMAIN q.inputs[i].partial_sigs :
        /\ i <= Len(p.inputs)
        /\ k \in DOMAIN p.inputs[i].partial_sigs
        /\ p.inputs[i].partial_sigs[k] = q.inputs[i].partial_sigs[k]

\* C10: after update_spend(p) returned Ok, the store holds one PSBT of the transaction
\* of p, under its txid, and every list_spend contains it; it equals p when the txid
\* was not stored before or when p carries every signature of the copy stored before.
C10_UpdateSpendStored ==
    UpdateOk =>
        LET p == ret.psbt
            id == txid(p.unsigned_tx)
        IN  /\ id \in DOMAIN spend_txs
            /\ spend_txs[id].unsigned_tx = p.unsigned_tx
            /\ \A k \in DOMAIN spend_txs : txid(spend_txs[k].unsigned_tx) = k
            /\ \A order \in Orders(spend_txs) :
                   /\ Len(list_spend(spend_txs, order)) = Cardinality(DOMAIN spend_txs)
                   /\ \E i \in 1..Len(order) : list_spend(spend_txs, order)[i].psbt = spend_txs[id]
            /\ (is_none(ret.before) \/ Carries(p, ret.before.v)) => spend_txs[id] = p

\* A stored PSBT is updated with a PSBT that adds a signature to those it holds.
C10_Witness ==
    /\ UpdateOk
    /\ is_some(ret.before)
    /\ Carries(ret.psbt, ret.before.v)
    /\ ret.before.v.inputs[1].partial_sigs # EmptyMap
    /\ ret.psbt # ret.before.v
    /\ spend_txs[txid(ret.psbt.unsigned_tx)] = ret.psbt

\* The PSBT stored under the txid of the PSBT that update_spend was given.
StoredPsbt == spend_txs[txid(ret.psbt.unsigned_tx)]

\* update_spend returned Ok for a PSBT whose txid was stored already.
Merged == UpdateOk /\ is_some(ret.before)

\* The signatures of the PSBT at this input: none if the PSBT has no such input.
SigsAt(psbt, i) == IF i <= Len(psbt.inputs) THEN psbt.inputs[i].partial_sigs ELSE EmptyMap

\* C11 as stated: after update_spend(p1); update_spend(p2) of one txid, the stored
\* partial_sigs of every input include every signature, key and value, of that input
\* of p1, the copy stored before, and of p2.
C11_EverySignatureKept ==
    Merged =>
        \A i \in 1..Len(ret.psbt.unsigned_tx.input) :
            \A q \in {ret.psbt, ret.before.v} : \A k \in DOMAIN SigsAt(q, i) :
                /\ k \in DOMAIN SigsAt(StoredPsbt, i)
                /\ SigsAt(StoredPsbt, i)[k] = SigsAt(q, i)[k]

\* C11, amended: at every input the new PSBT has, the stored partial_sigs hold a
\* signature, taken from the stored copy or from the new PSBT, for every public key
\* that signed this input in either, so the set of signing keys does not shrink.
C11_SigningKeysKept ==
    Merged =>
        \A i \in 1..Len(ret.psbt.inputs) :
            LET new == SigsAt(ret.psbt, i)
                old == SigsAt(ret.before.v, i)
                kept == SigsAt(StoredPsbt, i)
            IN  /\ DOMAIN kept = DOMAIN new \cup DOMAIN old
                /\ \A k \in DOMAIN kept :
                       \/ k \in DOMAIN new /\ kept[k] = new[k]
                       \/ k \in DOMAIN old /\ kept[k] = old[k]

\* The stored copy is signed by the owner, the new PSBT by the heir too: both are kept.
C11_Witness ==
    /\ Merged
    /\ DOMAIN SigsAt(ret.before.v, 1) = {"owner"}
    /\ ret.before.v.inputs[1].partial_sigs["owner"] = "sig_2"
    /\ DOMAIN SigsAt(ret.psbt, 1) = {"owner", "heir"}
    /\ DOMAIN SigsAt(StoredPsbt, 1) = {"owner", "heir"}

\* C12 as stated: when the stored copy and the new PSBT hold a signature for the same
\* key at the same input, the store holds the signature of the new PSBT afterwards.
C12_IncomingWins ==
    Merged =>
        \A i \in 1..Len(ret.psbt.inputs) :
            \A k \in DOMAIN SigsAt(ret.psbt, i) \cap DOMAIN SigsAt(ret.before.v, i) :
                SigsAt(StoredPsbt, i)[k] = SigsAt(ret.psbt, i)[k]

UpdateCalled == ret.op = "update_spend"

\* The positions of the inputs of the PSBT given to update_spend that are no coin.
UnknownInputs ==
    {i \in 1..Len(ret.psbt.unsigned_tx.input) :
        ret.psbt.unsigned_tx.input[i].previous_output \notin DOMAIN coins}

BroadcastCalled == ret # Idle /\ ret.op = "broadcast_spend"

\* The PSBT that was stored under the txid given to broadcast_spend.
BroadcastStored == spend_tx(ret.store_before, ret.txid)

\* Every input of the transaction has a PSBT input with the signature of the owner.
FullySigned(psbt) ==
    /\ Len(psbt.inputs) = Len(psbt.unsigned_tx.input)
    /\ \A i \in 1..Len(psbt.inputs) : "owner" \in DOMAIN psbt.inputs[i].partial_sigs

\* tx is the transaction of psbt with, as the witness of each input, its signature.
FinalTxOf(tx, psbt) ==
    /\ tx.output = psbt.unsigned_tx.output
    /\ Len(tx.input) = Len(psbt.unsigned_tx.input)
    /\ \A i \in 1..Len(tx.input) :
          /\ tx.input[i].previous_output = psbt.unsigned_tx.input[i].previous_output
          /\ tx.input[i].witness = Some(psbt.inputs[i].partial_sigs["owner"])

\* C14: broadcast_spend(txid) returns UnknownSpend(txid) when no PSBT is stored under
\* txid; when the stored PSBT cannot be finalized it returns SpendFinalization and the
\* backend is not called; broadcast_tx is called at most once, only with the
\* transaction of a PSBT that was finalized, and its failure comes back as TxBroadcast.
C14_BroadcastSpend ==
    BroadcastCalled =>
        /\ is_none(BroadcastStored) =>
              ret.result = Err("UnknownSpend", <<ret.txid>>) /\ ret.calls = <<>>
        /\ (is_some(BroadcastStored) /\ ~FullySigned(BroadcastStored.v)) =>
              is_err(ret.result, "SpendFinalization") /\ ret.calls = <<>>
        /\ Len(ret.calls) <= 1
        /\ \A i \in 1..Len(ret.calls) :
              /\ ret.calls[i].fn = "broadcast_tx"
              /\ is_some(BroadcastStored)
              /\ FullySigned(BroadcastStored.v)
              /\ FinalTxOf(ret.calls[i].tx, BroadcastStored.v)
        /\ (ret.calls # <<>> /\ ~is_ok(ret.answer)) =>
              ret.result = Err("TxBroadcast", ret.answer.args)
        /\ is_ok(ret.result) => (ret.calls # <<>> /\ is_ok(ret.answer))

\* A broadcast_spend of a stored and signed PSBT which the backend refused.
C14_Witness ==
    /\ BroadcastCalled
    /\ Len(ret.calls) = 1
    /\ is_err(ret.result, "TxBroadcast")

\* C15: broadcast_spend, whether it succeeds or fails, leaves the store as it was: the
\* stored PSBT is neither deleted nor replaced by its finalized form and no coin is
\* marked as spending; a coin becomes spending only in a step that is not a command.
C15_BroadcastLeavesStore ==
    /\ [][(ret = Idle /\ ret' # Idle /\ ret'.op = "broadcast_spend") =>
             UNCHANGED <<coins, spend_txs, deposit_index, change_index, rescan_timestamp>>]_vars
    /\ [][(\E op \in DOMAIN coins :
               op \in DOMAIN coins' /\ ~is_spent(coins[op]) /\ is_spent(coins'[op])) =>
             (ret = Idle /\ ret' = Idle)]_vars

\* A broadcast_spend that succeeded: the PSBT is still stored with its signatures, not
\* finalized, and the coin it spends is not marked as spending.
C15_Witness ==
    /\ BroadcastCalled
    /\ is_ok(ret.result)
    /\ is_some(spend_tx(spend_txs, ret.txid))
    /\ spend_tx(spend_txs, ret.txid) = BroadcastStored
    /\ FullySigned(BroadcastStored.v)
    /\ \A i \in 1..Len(BroadcastStored.v.unsigned_tx.input) :
          LET op == BroadcastStored.v.unsigned_tx.input[i].previous_output
          IN  op \in DOMAIN coins /\ ~is_spent(coins[op])

(***************************************************************************)
(* start_rescan.                                                           *)
(***************************************************************************)
\* The start_rescan of the caller t is under way or has its result ready.
Rescanning(t) == rescans[t] # Idle

RescanDone(t) == Rescanning(t) /\ rescans[t].pc = "done"

RescanErr(t, kind) == RescanDone(t) /\ is_err(rescans[t].result, kind)

\* C16: start_rescan(timestamp) returns InsaneRescanTimestamp(timestamp) whenever
\* timestamp < MAINNET_GENESIS_TIME or timestamp >= backend.tip_time(), and only then;
\* this comes before the check for a rescan under way, and neither backend.start_rescan
\* nor set_rescan is called.
C16_InsaneTimestamp ==
    \A t \in Callers : Rescanning(t) =>
        LET c == rescans[t]
            insane == c.timestamp < MAINNET_GENESIS_TIME \/ c.timestamp >= bitcoin.tip_time
        IN  /\ insane => /\ c.pc = "done"
                         /\ c.result = Err("InsaneRescanTimestamp", <<c.timestamp>>)
                         /\ c.calls = <<>>
            /\ RescanErr(t, "InsaneRescanTimestamp") => insane

\* The timestamp of the tip is refused while the store has a rescan under way.
C16_Witness ==
    /\ RescanErr(1, "InsaneRescanTimestamp")
    /\ rescans[1].timestamp = bitcoin.tip_time
    /\ is_some(rescan_timestamp)

\* C17: start_rescan with a valid timestamp returns AlreadyRescanning, with no call of
\* backend.start_rescan or set_rescan, whenever the rescan_timestamp of the store is
\* set or backend.rescan_progress() is not None; it goes on only when both are unset.
C17_AlreadyRescanning ==
    [][\A t \in Callers :
          (Rescanning(t) /\ rescans[t].pc = "check_rescan" /\ rescans'[t] # rescans[t]) =>
              IF is_some(rescan_timestamp) \/ is_some(bitcoin.rescan_progress)
              THEN /\ rescans'[t].pc = "done"
                   /\ rescans'[t].result = Err("AlreadyRescanning", <<>>)
                   /\ rescans'[t].calls = <<>>
                   /\ UNCHANGED <<rescan_timestamp, bitcoin>>
              ELSE rescans'[t].pc = "start_rescan"]_vars

\* AlreadyRescanning is returned because of the backend alone: the store had no rescan.
C17_Witness ==
    /\ RescanErr(1, "AlreadyRescanning")
    /\ is_none(rescans[1].seen.rescan_timestamp)
    /\ is_some(rescans[1].seen.rescan_progress)

\* The calls of a start_rescan: backend.start_rescan(descriptor, timestamp) first, then,
\* if it succeeded, set_rescan(timestamp).
RescanCallsInOrder(c) ==
    /\ Len(c.calls) <= 2
    /\ Len(c.calls) >= 1 =>
          /\ c.calls[1].fn = "start_rescan"
          /\ c.calls[1].desc = "main_descriptor"
          /\ c.calls[1].timestamp = c.timestamp
    /\ Len(c.calls) = 2 =>
          /\ c.calls[2] = [fn |-> "set_rescan", timestamp |-> c.timestamp]
          /\ is_ok(c.calls[1].answer)

\* C18: start_rescan calls backend.start_rescan(descriptor, timestamp) before it writes
\* to the store; set_rescan(timestamp) is run if and only if the backend call
\* succeeded; when the backend call fails the command returns RescanTrigger(message)
\* and the rescan_timestamp of the store stays unset.
C18_TriggerThenSet ==
    /\ [](\A t \in Callers : Rescanning(t) =>
            LET c == rescans[t]
            IN  /\ RescanCallsInOrder(c)
                /\ c.pc = "set_rescan" =>
                      (Len(c.calls) = 1 /\ is_ok(c.calls[1].answer) /\ is_none(rescan_timestamp))
                /\ (c.pc = "done" /\ c.calls # <<>>) =>
                      IF is_ok(c.calls[1].answer)
                      THEN Len(c.calls) = 2 /\ c.result = Ok(<<>>)
                      ELSE /\ Len(c.calls) = 1
                           /\ c.result = Err("RescanTrigger", c.calls[1].answer.args)
                           /\ is_none(rescan_timestamp))
    /\ [][(is_some(rescan_timestamp') /\ rescan_timestamp' # rescan_timestamp) =>
             \E t \in Callers :
                 /\ Rescanning(t) /\ rescans[t].pc = "set_rescan"
                 /\ rescans'[t].pc = "done" /\ Len(rescans'[t].calls) = 2
                 /\ rescan_timestamp' = Some(rescans[t].timestamp)]_vars

\* The backend refused to rescan and the store has no rescan.
C18_Witness ==
    /\ RescanErr(1, "RescanTrigger")
    /\ Len(rescans[1].calls) = 1
    /\ is_none(rescan_timestamp)

\* C19: under any interleaving of start_rescan calls with valid timestamps, at most one
\* of them passes the check for a rescan under way and calls backend.start_rescan
\* before that rescan is over: backend.start_rescan is never called while a rescan is
\* under way.
C19_RaceFree ==
    \A t \in Callers :
        (Rescanning(t) /\ "outstanding" \in DOMAIN rescans[t]) => ~rescans[t].outstanding

(***************************************************************************)
(* gethistory.                                                             *)
(***************************************************************************)
\* gethistory has returned its events.
HistoryReturned == ret # Idle /\ ret.op = "gethistory" /\ is_ok(ret.result)

\* C20: gethistory(s, e, L) returns at most L events, every returned event has
\* s <= date <= e, and the events are in non-increasing order of date.
C20_HistoryBounded ==
    HistoryReturned =>
        LET events == ret.result.v
        IN  /\ Len(events) <= ret.limit
            /\ \A i \in 1..Len(events) : ret.start <= events[i].date /\ events[i].date <= ret.end
            /\ \A i, j \in 1..Len(events) : i < j => events[i].date >= events[j].date

\* As many events as the limit allows, a spend among them, at different dates, while
\* the period has more events than the limit.
C20_Witness ==
    /\ HistoryReturned
    /\ ret.limit = 2
    /\ Len(ret.result.v) = 2
    /\ ret.result.v[1].date > ret.result.v[2].date
    /\ \E i \in 1..2 : ret.result.v[i].kind = "spend"
    /\ Cardinality({op \in DOMAIN coins :
                       /\ is_some(coins[op].block_time) /\ ~coins[op].is_change
                       /\ in_bound(coins[op].block_time.v, ret.start, ret.end)}) = 2

\* The positions of the Spend events among the events that gethistory returned.
SpendEvents == {i \in 1..Len(ret.result.v) : ret.result.v[i].kind = "spend"}

\* The sum, as a natural number, of the amounts at the positions I of a sequence.
RECURSIVE SumAt(_, _)
SumAt(amounts, I) ==
    IF I = {} THEN 0
    ELSE LET i == CHOOSE j \in I : TRUE
         IN  ToNat(amounts[i]) + SumAt(amounts, I \ {i})

\* The positions of the outputs of the transaction tx that are change coins of the wallet.
ChangeOutputs(tx) ==
    {i \in 1..Len(tx.output) :
        \E op \in DOMAIN coins :
            op = [txid |-> txid(tx), vout |-> i - 1] /\ coins[op].is_change}

\* C21: for every Spend event that gethistory returns, amount is the sum of the outputs
\* of the spending transaction that are not change coins of the wallet, miner_fee is
\* the sum of the amounts of the coins of the event minus the sum of all the outputs,
\* date is the time of the spend block and coins are spent outpoints; hence the spent
\* coins sum to amount + change + miner_fee.
C21_SpendEvent ==
    HistoryReturned =>
        \A e \in SpendEvents :
            LET event == ret.result.v[e]
                tx == bitcoin.txs[event.txid]
                values == [i \in 1..Len(tx.output) |-> tx.output[i].value]
                amounts == [i \in 1..Len(event.coins) |-> coins[event.coins[i]].amount]
                change == SumAt(values, ChangeOutputs(tx))
                spent == SumAt(amounts, 1..Len(event.coins))
            IN  /\ event.txid \in DOMAIN bitcoin.txs
                /\ ToNat(event.amount) = SumAt(values, (1..Len(tx.output)) \ ChangeOutputs(tx))
                /\ is_some(event.miner_fee)
                /\ ToNat(event.miner_fee.v) = spent - SumAt(values, 1..Len(tx.output))
                /\ \A i \in 1..Len(event.coins) :
                      /\ coins[event.coins[i]].spend_txid = Some(event.txid)
                      /\ is_some(coins[event.coins[i]].spend_block)
                      /\ coins[event.coins[i]].spend_block.v.time = event.date
                /\ spent = ToNat(event.amount) + change + ToNat(event.miner_fee.v)

HistoryCalled == ret # Idle /\ ret.op = "gethistory"

\* The wallet coins that the transaction of this txid spends.
SpentBy(id) == {op \in DOMAIN coins : coins[op].spend_txid = Some(id)}

\* The store agrees with the backend: the outputs of each spending transaction sum to
\* no more than the wallet coins it spends, the coins that one transaction spends have
\* the same spend block, and a coin is confirmed no later than its spend.
ConsistentWithBackend ==
    /\ \A id \in DOMAIN bitcoin.txs :
          LET tx == bitcoin.txs[id]
              values == [i \in 1..Len(tx.output) |-> tx.output[i].value]
              spent == CHOOSE order \in OrdersOf(SpentBy(id)) : TRUE
              amounts == [i \in 1..Len(spent) |-> coins[spent[i]].amount]
          IN  SpentBy(id) # {} =>
                  SumAt(values, 1..Len(values)) <= SumAt(amounts, 1..Len(amounts))
    /\ \A a, b \in DOMAIN coins :
          (is_some(coins[a].spend_txid) /\ coins[a].spend_txid = coins[b].spend_txid) =>
              coins[a].spend_block = coins[b].spend_block
    /\ \A op \in DOMAIN coins :
          is_some(coins[op].spend_block) =>
              /\ is_some(coins[op].block_time)
              /\ coins[op].block_time.v <= coins[op].spend_block.v.time

\* C28: when the store agrees with the backend, for every (start, end, limit), limits
\* below the number of transactions of the period included, gethistory does not panic
\* and every Spend event it returns lists all the wallet coins that its transaction
\* spends.
C28_HistoryComplete ==
    (HistoryCalled /\ ConsistentWithBackend) =>
        /\ is_ok(ret.result)
        /\ \A e \in SpendEvents : Range(ret.result.v[e].coins) = SpentBy(ret.result.v[e].txid)

\* gethistory got to the sort: the events as they were pushed.
HistoryEmitted == HistoryCalled /\ is_ok(ret.events)

\* The positions, among the coins that list_updated_coins returned, of the coins that
\* are confirmed, are not change and were received between start and end.
ReceivedCoins ==
    {j \in 1..Len(ret.updated) :
        /\ is_some(ret.updated[j].block_height)
        /\ ~ret.updated[j].is_change
        /\ is_some(ret.updated[j].block_time)
        /\ ret.start <= ret.updated[j].block_time.v
        /\ ret.updated[j].block_time.v <= ret.end}

ReceiveOf(coin) ==
    [kind |-> "receive", amount |-> coin.amount, miner_fee |-> None,
     date |-> coin.block_time.v, txid |-> coin.outpoint.txid, coins |-> <<coin.outpoint>>]

\* C22: before the last truncation, gethistory has exactly one Receive event for each
\* coin of list_updated_coins that is confirmed, is not change and has its block_time
\* in [start, end], with the amount, date, txid and outpoint of the coin and no
\* miner_fee; a change coin or an unconfirmed coin gives no Receive event.
C22_ReceiveEvents ==
    HistoryEmitted =>
        LET events == ret.events.v
            receives == {i \in 1..Len(events) : events[i].kind = "receive"}
        IN  /\ \A j \in ReceivedCoins :
                  Cardinality({i \in receives :
                                  events[i].coins = <<ret.updated[j].outpoint>>}) = 1
            /\ \A i \in receives :
                  \E j \in ReceivedCoins : events[i] = ReceiveOf(ret.updated[j])

\* A deposit gives a Receive event that the limit then cuts off, and a change coin
\* confirmed in the period gives none.
C22_Witness ==
    /\ HistoryEmitted
    /\ ReceivedCoins # {}
    /\ Len(ret.events.v) > ret.limit
    /\ \E j \in 1..Len(ret.updated) :
          /\ ret.updated[j].is_change
          /\ is_some(ret.updated[j].block_time)
          /\ ret.start <= ret.updated[j].block_time.v
          /\ ret.updated[j].block_time.v <= ret.end

\* The positions, among the coins that list_updated_coins returned, of the coins whose
\* spend is confirmed between start and end.
SpentCoins ==
    {j \in 1..Len(ret.updated) :
        /\ is_some(ret.updated[j].spend_txid)
        /\ is_some(ret.updated[j].spend_block)
        /\ ret.start <= ret.updated[j].spend_block.v.time
        /\ ret.updated[j].spend_block.v.time <= ret.end}

CoinWellFormed(coin) ==
    /\ is_some(coin.spend_block) => is_some(coin.spend_txid)
    /\ is_some(coin.block_height) <=> is_some(coin.block_time)

\* C24: after any sequence of new_unspent_coins (of unconfirmed and unspent coins),
\* confirm_coins, spend_coins and confirm_spend, every stored coin has spend_txid set
\* if spend_block is set, and block_height set if and only if block_time is set; the
\* spend of a coin is confirmed only after the coin was marked as spending.
C24_CoinLifecycle ==
    /\ [](\A op \in DOMAIN coins : CoinWellFormed(coins[op]))
    /\ [][\A op \in DOMAIN coins' :
             (is_some(coins'[op].spend_block)
                 /\ (op \in DOMAIN coins => is_none(coins[op].spend_block))) =>
             (op \in DOMAIN coins /\ is_some(coins[op].spend_txid))]_vars

\* A confirmed coin whose spend is confirmed.
C24_Witness ==
    \E op \in DOMAIN coins :
        /\ is_some(coins[op].block_height)
        /\ is_some(coins[op].block_time)
        /\ is_some(coins[op].spend_txid)
        /\ is_some(coins[op].spend_block)

(***************************************************************************)
(* The derivation indexes.                                                 *)
(***************************************************************************)
\* This step is the call of the command op.
Calls(op) == ret = Idle /\ ret' # Idle /\ ret'.op = op

\* C25: receive_index and change_index never decrease, and they are two counters:
\* get_new_address advances the receive index alone, create_spend advances the change
\* index alone, and the index at which create_spend derives its change script is the
\* counter that increment_change_index advances, so that two create_spend calls never
\* derive their change at the same index.
C25_DistinctCounters ==
    [][/\ deposit_index' >= deposit_index
       /\ change_index' >= change_index
       /\ Calls("get_new_address") =>
             (deposit_index' = deposit_index + 1 /\ change_index' = change_index)
       /\ Calls("create_spend") =>
             /\ deposit_index' = deposit_index
             /\ change_index' # change_index => ret'.index = change_index]_vars

(***************************************************************************)
(* create_spend: arithmetic and failures                                   *)
(***************************************************************************)
\* The errors create_spend returns before it compares feerates.
EarlyErrors ==
    {"NoOutpoint", "NoDestination", "InvalidFeerate", "UnknownOutpoint", "AlreadySpent",
     "InvalidOutputValue"}

\* C26: the satoshi arithmetic of create_spend and of its sanity check is checked: a
\* call never panics, and a call whose arithmetic overflows (here feerate * 9, once
\* the inputs and the destinations are accepted) fails with SanityCheckFailure.
C26_CheckedArithmetic ==
    ret.op = "create_spend" =>
        /\ ret.result.tag \in {"Ok", "Err"}
        /\ (/\ is_none(checked_mul(ret.feerate_vb, 9))
            /\ ~(ret.result.tag = "Err" /\ ret.result.kind \in EarlyErrors))
           => is_err(ret.result, "SanityCheckFailure")

\* The errors create_spend returns before it reaches the change computation.
ErrorsBeforeChange ==
    {"NoOutpoint", "NoDestination", "InvalidFeerate", "UnknownOutpoint", "AlreadySpent",
     "InsufficientFunds"}

\* C27 as stated: a create_spend call that returns an error leaves the coins, the
\* stored PSBTs, the receive index and the change index as they were.
C27_ErrorLeavesStore ==
    [][(Calls("create_spend") /\ ret'.result.tag = "Err")
         => UNCHANGED <<coins, spend_txs, deposit_index, change_index>>]_vars

\* C27, amended: a create_spend call that returns an error leaves the coins, the stored
\* PSBTs and the receive index as they were; the change index is as it was when the
\* error precedes the change computation, and otherwise it is as it was or one higher,
\* one higher exactly when the call asked the store for a change index.
C27_ErrorLeavesCoins ==
    [][(Calls("create_spend") /\ ret'.result.tag = "Err")
         => /\ UNCHANGED <<coins, spend_txs, deposit_index>>
            /\ change_index' = change_index + (IF ret'.incremented THEN 1 ELSE 0)
            /\ ret'.result.kind \in ErrorsBeforeChange => ~ret'.incremented]_vars

\* Calls that failed after the change index was incremented: on the change amount
\* and on the sanity check.
C27_Witness ==
    /\ ret.op = "create_spend"
    /\ ret.incremented
    /\ is_err(ret.result, "InvalidOutputValue")

\* The sum of the amounts of the stored coins at the outpoints of S.
RECURSIVE AmountOf(_)
AmountOf(S) ==
    IF S = {} THEN U(0)
    ELSE LET op == CHOOSE o \in S : TRUE
         IN  checked_add(coins[op].amount, AmountOf(S \ {op})).v

\* C29: a transaction returned by create_spend spends no outpoint twice, and the
\* in_value of the fee and change computation (reported by InsufficientFunds, and
\* carried by the witness_utxo values of a returned PSBT) is the sum of the amounts of
\* the distinct coins spent, also when the caller repeats an outpoint.
C29_NoDoubleSpend ==
    LET distinct == AmountOf(Range(ret.coins_outpoints))
    IN  /\ SpendOk =>
              LET psbt == ret.result.v
                  tx == psbt.unsigned_tx
              IN  /\ \A i, j \in 1..Len(tx.input) :
                         i # j => tx.input[i].previous_output # tx.input[j].previous_output
                  /\ sanity_value_in(psbt, 1, U(0)) = Ok(distinct)
        /\ (ret.op = "create_spend" /\ is_err(ret.result, "InsufficientFunds"))
              => ret.result.args[1] = distinct

(***************************************************************************)
(* get_new_address under concurrent callers                                *)
(***************************************************************************)
\* The get_new_address call of the caller t has its address.
AddressDone(t) == address_calls[t] # Idle /\ address_calls[t].pc = "done"

\* C30: two get_new_address calls that run at the same time return addresses derived
\* at two different receive indices, and each of them moves the stored receive index
\* up by one, under every interleaving of their reads and increments.
C30_ConcurrentAddresses ==
    /\ \A t, u \in Callers :
           (t # u /\ AddressDone(t) /\ AddressDone(u))
               => /\ address_calls[t].index # address_calls[u].index
                  /\ address_calls[t].result # address_calls[u].result
                  /\ deposit_index >= address_calls[t].start + 1
    /\ deposit_index = Len(returned)

(***************************************************************************)
(* create_spend: what it leaves in the store                               *)
(***************************************************************************)
\* The call recorded in ret got as far as the change decision: the checks passed, the
\* funds are sufficient and feerate * 9 is a u64.
ReachedChangeDecision ==
    /\ SpendCalled
    /\ ChecksOk
    /\ ~SpendErr("InsufficientFunds")
    /\ is_some(checked_mul(ret.feerate_vb, 9))

\* floor(abs_fee / nochange_vb) of the call recorded in ret.
NoChangeFeerate == checked_div(checked_sub(InValue, OutValue).v, NoChangeVb).v

\* The call recorded in ret saw abs_fee / nochange_vb > feerate at the change decision.
AboveTarget == ReachedChangeDecision /\ U64Lt(ret.feerate_vb, NoChangeFeerate)

\* C31: a create_spend that reaches the change decision with abs_fee / nochange_vb >
\* feerate advances the stored change index by exactly one, whether or not a change
\* output ends up in the transaction; any other create_spend leaves the change index
\* as it was.
C31_ChangeIndexLeak ==
    /\ [](SpendCalled => (ret.incremented <=> AboveTarget))
    /\ [][Calls("create_spend") =>
             change_index' = change_index + (IF ret'.incremented THEN 1 ELSE 0)]_vars

\* A PSBT without change is returned by a call that advanced the change index.
C31_Witness ==
    /\ SpendOk
    /\ AboveTarget
    /\ Len(ret.result.v.unsigned_tx.output) = NbDestinations
    /\ change_index > 0

\* C32: create_spend reserves nothing: it modifies no coin, stores no PSBT and leaves
\* the receive index alone, so whether a call succeeds depends on the coins and on its
\* arguments only, not on the change index that earlier calls advanced; a PSBT enters
\* the store only through update_spend.
C32_NothingReserved ==
    /\ [](SpendCalled =>
             \A index \in 0..MaxIndex :
                 LET r == create_spend(coins, index, ret.coins_outpoints, ret.destinations,
                                       ret.order, ret.feerate_vb).result
                 IN  /\ r.tag = ret.result.tag
                     /\ r.tag = "Err" => r.kind = ret.result.kind)
    /\ [][/\ Calls("create_spend") => UNCHANGED <<coins, spend_txs, deposit_index>>
          /\ spend_txs' # spend_txs => Calls("update_spend")]_vars

\* A create_spend succeeds on the only coin of the store after an earlier create_spend
\* took a change script for it, and after the PSBT of the tests was stored.
C32_Witness ==
    /\ SpendOk
    /\ DOMAIN coins = {OutPoint(1)}
    /\ ret.coins_outpoints = <<OutPoint(1)>>
    /\ change_index = MaxIndex
    /\ Cardinality(DOMAIN spend_txs) = 2

\* C33: create_spend is deterministic given its arguments and the store: a call with
\* the same outpoints, the same destination map and the same feerate, from the same
\* store, returns the same error or the same unsigned transaction, whatever the order
\* in which the destination map happens to be iterated.
C33_Deterministic ==
    SpendCalled =>
        \A order \in Orders(ret.destinations) :
            LET again == create_spend(coins, ret.index, ret.coins_outpoints, ret.destinations,
                                      order, ret.feerate_vb).result
            IN  IF is_ok(ret.result)
                THEN is_ok(again) /\ again.v.unsigned_tx = ret.result.v.unsigned_tx
                ELSE again = ret.result

(***************************************************************************)
(* start_rescan after a rescan was started                                 *)
(***************************************************************************)
\* The store waits for a rescan or the backend is rescanning.
RescanUnderWay == is_some(rescan_timestamp) \/ is_some(bitcoin.rescan_progress)

\* This step is the first of a start_rescan call of the caller t.
BeginsRescan(t) == rescans[t] = Idle /\ rescans'[t] # Idle

\* This step is the check for a rescan under way of the call of the caller t.
ChecksRescan(t) ==
    rescans[t] # Idle /\ rescans[t].pc = "check_rescan" /\ rescans'[t] # rescans[t]

\* From the check on: a call that finds a rescan under way returns AlreadyRescanning,
\* a call that finds none goes on to the backend; a call that succeeds leaves the
\* rescan_timestamp of the store set, and the timestamp is cleared only once the
\* backend reports no progress.
RefusedUntilComplete(t) ==
    /\ ChecksRescan(t) =>
           IF RescanUnderWay
           THEN rescans'[t].pc = "done" /\ rescans'[t].result = Err("AlreadyRescanning", <<>>)
           ELSE rescans'[t].pc = "start_rescan"
    /\ (rescans'[t] # Idle /\ rescans'[t] # rescans[t] /\ rescans'[t].pc = "done"
           /\ is_ok(rescans'[t].result))
          => rescan_timestamp' = Some(rescans[t].timestamp)
    /\ (is_some(rescan_timestamp) /\ is_none(rescan_timestamp'))
          => is_none(bitcoin.rescan_progress)

\* C34 as stated: after a start_rescan that succeeded, every further start_rescan
\* returns AlreadyRescanning for as long as the rescan_timestamp of the store is set or
\* the backend reports progress; once both are unset a start_rescan can go on again.
C34_EveryFurtherRefused ==
    [][\A t \in Callers :
          /\ (BeginsRescan(t) /\ RescanUnderWay) => rescans'[t].pc = "check_rescan"
          /\ RefusedUntilComplete(t)]_vars

\* C34, amended: after a start_rescan that succeeded, every further start_rescan with a
\* valid timestamp returns AlreadyRescanning for as long as the rescan_timestamp of the
\* store is set or the backend reports progress, and one with a timestamp before the
\* genesis block or not before the tip returns InsaneRescanTimestamp; once both are
\* unset a start_rescan with a valid timestamp goes on to the backend again.
C34_ValidFurtherRefused ==
    [][\A t \in Callers :
          /\ (BeginsRescan(t) /\ RescanUnderWay) =>
                 LET ts == rescans'[t].timestamp
                 IN  IF ts < MAINNET_GENESIS_TIME \/ ts >= bitcoin.tip_time
                     THEN /\ rescans'[t].pc = "done"
                          /\ rescans'[t].result = Err("InsaneRescanTimestamp", <<ts>>)
                     ELSE rescans'[t].pc = "check_rescan"
          /\ RefusedUntilComplete(t)]_vars

\* A call is refused because of the store alone: an earlier call succeeded, the backend
\* is done, and the chain-sync has not completed the rescan yet.
C34_Witness ==
    /\ RescanErr(1, "AlreadyRescanning")
    /\ is_some(rescans[1].seen.rescan_timestamp)
    /\ is_none(rescans[1].seen.rescan_progress)

(***************************************************************************)
(* The index handed out and the index stored                               *)
(***************************************************************************)
\* C35: when get_new_address returns the address derived at receive index i, the
\* stored receive index is already greater than i; when create_spend returns a PSBT
\* whose change output is derived at change index i, the stored change index is
\* already greater than i.
C35_IncrementBeforeReturn ==
    /\ (ret.op = "get_new_address") =>
           deposit_index > ret.result.address.address_of.of.index
    /\ (SpendOk /\ Len(ret.result.v.unsigned_tx.output) = NbDestinations + 1) =>
           LET change == ret.result.v.unsigned_tx.output[NbDestinations + 1]
           IN  change_index > change.script_pubkey.of.index

(***************************************************************************)
(* get_info.                                                               *)
(***************************************************************************)
\* C36: get_info reports a rescan_progress if and only if the rescan_timestamp of the
\* store is set; it is then the progress of the backend, or 1.0 when the backend
\* reports none; blockheight is the height of the stored tip, or 0 without a tip.
\* get_info changes neither the store nor the backend.
C36_GetInfo ==
    /\ [](ret.op = "get_info" =>
             LET seen == ret.seen
                 info == ret.result
             IN  /\ is_some(info.rescan_progress) <=> is_some(seen.rescan_timestamp)
                 /\ is_some(info.rescan_progress) =>
                        info.rescan_progress.v = IF is_some(seen.rescan_progress)
                                                 THEN seen.rescan_progress.v ELSE 100
                 /\ info.blockheight = IF is_some(seen.curr_tip)
                                        THEN seen.curr_tip.v.height ELSE 0)
    /\ [][Calls("get_info") =>
             UNCHANGED <<coins, deposit_index, change_index, spend_txs, curr_tip,
                         rescan_timestamp, bitcoin>>]_vars

\* The store waits for a rescan that the backend has finished: get_info reports 1.0.
C36_Witness ==
    /\ ret.op = "get_info"
    /\ ret.result.rescan_progress = Some(100)
    /\ is_none(ret.seen.rescan_progress)
    /\ ret.result.blockheight = 100


(***************************************************************************)
(* The coins of the store.                                                 *)
(***************************************************************************)
\* C37: list_spending_coins returns exactly the coins whose spend_txid is set and whose
\* spend_block is unset; a coin whose spend is confirmed is not returned.
C37_SpendingCoins ==
    ret.op = "list_spending_coins" =>
        /\ DOMAIN ret.result =
               {op \in DOMAIN coins : /\ is_some(coins[op].spend_txid)
                                      /\ is_none(coins[op].spend_block)}
        /\ \A op \in DOMAIN ret.result : ret.result[op] = coins[op]

\* The identity fields of a coin.
Identity(coin) ==
    <<coin.outpoint, coin.amount, coin.derivation_index, coin.is_change>>

\* C38: a stored coin stays stored with the outpoint, amount, derivation_index and
\* is_change it was inserted with: a step changes at most its block_height, block_time,
\* spend_txid and spend_block, and new_unspent_coins of a stored outpoint leaves the
\* stored coin as it is.
C38_IdentityKept ==
    [][/\ \A op \in DOMAIN coins :
              /\ op \in DOMAIN coins'
              /\ Identity(coins'[op]) = Identity(coins[op])
       /\ \A coin \in NewCoins : NewUnspentCoinsStored(coin) => coins' = coins]_vars

====
